---------------------------- MODULE Spec2Model ----------------------------
(***************************************************************************)
(* A model of the BlueLeafBooks backend: the pricing engine, the order     *)
(* ledger with its PayPal verification, the PDF access check, the platform *)
(* fee tracking (calendar month and join-date cycle) and the author gate.  *)
(*                                                                         *)
(* The repository carries several generations of the same route files.     *)
(* Each generation a handler has is modelled as its own action:            *)
(*   ...Secure / ...Gated / ...Trial  the newer generation                 *)
(*   ...Legacy                        the older generation                 *)
(*                                                                         *)
(* Units.  Prices and totals are integer cents.  Earnings, which the code  *)
(* keeps as unrounded floating point numbers, are integers in units of     *)
(* 1/100 cent (Unit per cent), truncated.  Dates are whole days counted    *)
(* from 1 January of the first model year; years have 365 days.            *)
(***************************************************************************)
EXTENDS Integers, Sequences, FiniteSets, TLC

VARIABLES
    feePct,      \* PLATFORM_FEE_PERCENTAGE, read from the environment at start
    sendDirect,  \* PAYPAL_SEND_TO_AUTHORS !== 'false'
    now,         \* the clock, in days
    users,       \* User documents of role author
    books,       \* Book documents
    orders,      \* Order documents, in insertion order
    feeStatus,   \* PlatformFeeStatus documents, in insertion order
    paypal,      \* the orders PayPal knows, by PayPal order id
    reqs,        \* requests that are between two awaits
    resp         \* the response of the request that finished last

vars == <<feePct, sendDirect, now, users, books, orders, feeStatus, paypal, reqs, resp>>

-----------------------------------------------------------------------------
(* Bounds of the model *)

MaxOrders == 2
MaxDay == 75
MaxReqs == 2
TickDays == 10

(* Program constants *)

TrialDays == 30
DueDay == 10
MaxBillingDay == 28

-----------------------------------------------------------------------------
(* The fixed population *)

Authors == {"a1", "a2"}
Customers == {"u1", "u2"}
BookIds == {"b1", "b2", "b3"}
NoCoupon == "none"
Statuses == {"pending", "approved", "rejected"}

BookAuthor(b) == IF b = "b1" THEN "a1" ELSE "a2"
BookPrice(b) == CASE b = "b1" -> 1000 [] b = "b2" -> 500 [] OTHER -> 0

(* The days on which the two authors registered *)
JoinDay(a) == IF a = "a1" THEN 0 ELSE 15
StartDay == JoinDay("a2")

(* PayPal's record of the orders it knows, by order id.  An id outside the *)
(* domain makes OrdersGetRequest throw.                                    *)
PayPalOrders ==
    [p \in {"p1", "p2", "p3", "p4"} |->
        CASE p = "p1" -> [status |-> "COMPLETED", currency |-> "USD", value |-> 1500]
          [] p = "p2" -> [status |-> "COMPLETED", currency |-> "USD", value |-> 500]
          [] p = "p3" -> [status |-> "APPROVED",  currency |-> "USD", value |-> 1500]
          [] OTHER    -> [status |-> "COMPLETED", currency |-> "EUR", value |-> 1500]]
PayIds == DOMAIN PayPalOrders \cup {"px", ""}

(* Coupon documents, by normalised code.  validFrom / validTo of -1: unset *)
CouponDoc(pct, scope, author, isActive, validFrom, validTo) ==
    [pct |-> pct, scope |-> scope, author |-> author,
     isActive |-> isActive, validFrom |-> validFrom, validTo |-> validTo]

Coupons ==
    [c \in {"HALF", "A1TEN", "OFF", "OLD", "TEN", "FULL", "A2HALF",
            "OLDOFF", "OLDEARLY", "OLDFROM", "SOON"} |->
        CASE c = "HALF"     -> CouponDoc(50, "all", "a1", TRUE, -1, -1)
          [] c = "A1TEN"    -> CouponDoc(10, "author", "a1", TRUE, -1, -1)
          [] c = "OFF"      -> CouponDoc(50, "all", "a1", FALSE, -1, -1)
          [] c = "OLD"      -> CouponDoc(50, "all", "a1", TRUE, -1, 0)
          [] c = "TEN"      -> CouponDoc(10, "all", "a1", TRUE, 0, 300)
          [] c = "FULL"     -> CouponDoc(100, "all", "a1", TRUE, -1, -1)
          [] c = "A2HALF"   -> CouponDoc(50, "author", "a2", TRUE, -1, -1)
          [] c = "OLDOFF"   -> CouponDoc(50, "all", "a1", FALSE, -1, 0)
          [] c = "OLDEARLY" -> CouponDoc(50, "all", "a1", TRUE, 300, 0)
          [] c = "OLDFROM"  -> CouponDoc(50, "all", "a1", TRUE, 0, 0)
          [] OTHER          -> CouponDoc(50, "all", "a1", TRUE, 300, -1)]
CouponCodes == DOMAIN Coupons \cup {"BOGUS"}

-----------------------------------------------------------------------------
(* Sequence helpers *)

RECURSIVE SumSeq(_)
SumSeq(s) == IF s = <<>> THEN 0 ELSE Head(s) + SumSeq(Tail(s))

Range(s) == {s[i] : i \in DOMAIN s}

RemoveAt(s, i) == SubSeq(s, 1, i - 1) \o SubSeq(s, i + 1, Len(s))


-----------------------------------------------------------------------------
(* Dates.  new Date(y, m, d) with JavaScript's carry of an out-of-range    *)
(* month or day; getFullYear, getMonth (0..11) and getDate (1..31).  Day 0 *)
(* is 1 January 2026.                                                      *)

MonthStart == <<0, 31, 59, 90, 120, 151, 181, 212, 243, 273, 304, 334>>

MkDate(y, m, d) ==
    365 * (y - 2026 + (m \div 12)) + MonthStart[(m % 12) + 1] + d - 1

GetFullYear(t) == 2026 + (t \div 365)

GetMonth(t) ==
    LET doy == t % 365
    IN  (CHOOSE k \in 1..12 :
            /\ MonthStart[k] <= doy
            /\ (k = 12 \/ doy < MonthStart[k + 1])) - 1

GetDate(t) == (t % 365) - MonthStart[GetMonth(t) + 1] + 1

(* A date or reference that is not set *)
Absent == 0 - 1

Min(a, b) == IF a < b THEN a ELSE b
Max(a, b) == IF a > b THEN a ELSE b

-----------------------------------------------------------------------------
(* Queries *)

BookOrder == <<"b1", "b2", "b3">>

FindBooksPerId(ids) == SelectSeq(ids, LAMBDA b : ~books[b].isDeleted)

(* Book.find({ _id: { $in: ids }, isDeleted: false }): each matching       *)
(* document once, whatever the number of times its id is listed.           *)
FindBooks(ids) ==
    SelectSeq(BookOrder, LAMBDA b : b \in Range(ids) /\ ~books[b].isDeleted)

TruncCents(n, d) == n \div d

(* toFixed(2) of n/d cents: the nearest cent *)
RoundCents(n, d) == (2 * n + d) \div (2 * d)

PriceSum(bs) == SumSeq([i \in DOMAIN bs |-> books[bs[i]].price])

-----------------------------------------------------------------------------
(* utils/pricing.js *)

PricingError(status, message) ==
    [ok |-> FALSE, status |-> status, message |-> message]

NeverExpired(coupon) == FALSE

(* coupon.validTo && now > coupon.validTo *)
Expired(coupon) == coupon.validTo >= 0 /\ now > coupon.validTo

EligibleWhateverAuthor(coupon, b) == TRUE

IsEligible(coupon, b) ==
    \/ coupon.scope = "all"
    \/ coupon.scope = "author" /\ books[b].author = coupon.author

DiscountedItem(coupon, b) ==
    LET originalPrice == books[b].price
        pct == IF IsEligible(coupon, b) THEN coupon.pct ELSE 0
    IN  [bookId |-> b,
         originalPrice |-> originalPrice,
         discountedPrice |-> Max(0, RoundCents(originalPrice * (100 - pct), 100)),
         discountAmount |-> RoundCents(originalPrice * pct, 100),
         isDiscounted |-> IsEligible(coupon, b)]

CalculateCartPricing(bookIds, couponCode) ==
    LET found == FindBooks(bookIds)
        originalTotal == PriceSum(found)
    IN  IF bookIds = <<>> THEN
            [ok |-> TRUE, books |-> <<>>, originalTotal |-> 0, discountAmount |-> 0,
             total |-> 0, discountCode |-> NoCoupon, discountPercentage |-> 0,
             discountedItems |-> <<>>]
        ELSE IF couponCode = NoCoupon THEN
            [ok |-> TRUE, books |-> found, originalTotal |-> originalTotal,
             discountAmount |-> 0, total |-> originalTotal,
             discountCode |-> NoCoupon, discountPercentage |-> 0,
             discountedItems |->
                [i \in DOMAIN found |->
                    [bookId |-> found[i],
                     originalPrice |-> books[found[i]].price,
                     discountedPrice |-> books[found[i]].price,
                     discountAmount |-> 0,
                     isDiscounted |-> FALSE]]]
        ELSE IF couponCode \notin DOMAIN Coupons THEN
            PricingError(404, "Invalid coupon code")
        ELSE
            LET coupon == Coupons[couponCode]
                items == [i \in DOMAIN found |-> DiscountedItem(coupon, found[i])]
                newTotal == SumSeq([i \in DOMAIN items |-> items[i].discountedPrice])
            IN  IF ~coupon.isActive THEN
                    PricingError(400, "This coupon is not active")
                ELSE IF coupon.validFrom >= 0 /\ now < coupon.validFrom THEN
                    PricingError(400, "This coupon is not yet valid")
                ELSE IF Expired(coupon) THEN
                    PricingError(400, "This coupon has expired")
                ELSE IF /\ coupon.scope = "author"
                        /\ ~\E i \in DOMAIN found :
                                books[found[i]].author = coupon.author THEN
                    PricingError(400, "This coupon is only valid for books by the author")
                ELSE
                    [ok |-> TRUE, books |-> found, originalTotal |-> originalTotal,
                     discountAmount |-> Max(0, originalTotal - newTotal),
                     total |-> newTotal,
                     discountCode |-> couponCode,
                     discountPercentage |-> coupon.pct,
                     discountedItems |-> items]

-----------------------------------------------------------------------------
(* routes/orders.js: POST /orders *)

Response(op, status, who, data) ==
    [op |-> op, status |-> status, who |-> who, data |-> data, rows |-> <<>>]

RowsResponse(op, who, rows) ==
    [op |-> op, status |-> 200, who |-> who, data |-> "", rows |-> rows]

(* PAYPAL VERIFY: 0 when the payment is verified, else the status of the   *)
(* error response.  netfail: the call to PayPal itself fails.              *)

VerifyPayPal(pay, totalAmount, netfail) ==
    IF netfail THEN 500
    ELSE IF pay \notin DOMAIN paypal THEN 404
    ELSE LET pp == paypal[pay]
         IN  IF pp.status # "COMPLETED" THEN 400
             ELSE IF pp.currency # "USD" THEN 400
             ELSE IF pp.value # totalAmount THEN 400
             ELSE 0

(* One book's contribution to its author's earnings, in 1/100 cent:        *)
(* totalAmount * (price / originalTotal) * (1 - fee / 100)                 *)

AuthorEarningOnListPrice(price, totalAmount, originalTotal) ==
    price * (100 - feePct)

AuthorEarning(price, totalAmount, originalTotal) ==
    IF originalTotal > 0
    THEN (totalAmount * price * (100 - feePct)) \div originalTotal
    ELSE 0

(* authorEarningsMap, as the list of its entries in insertion order *)

RECURSIVE AddEarning(_, _, _)
AddEarning(map, author, amount) ==
    IF map = <<>> THEN <<[author |-> author, amount |-> amount]>>
    ELSE IF Head(map).author = author
         THEN <<[author |-> author, amount |-> Head(map).amount + amount]>> \o Tail(map)
         ELSE <<Head(map)>> \o AddEarning(Tail(map), author, amount)

RECURSIVE EarningsMap(_, _, _)
EarningsMap(bs, totalAmount, originalTotal) ==
    IF bs = <<>> THEN <<>>
    ELSE LET b == bs[Len(bs)]
         IN  AddEarning(EarningsMap(SubSeq(bs, 1, Len(bs) - 1), totalAmount, originalTotal),
                        books[b].author,
                        AuthorEarning(books[b].price, totalAmount, originalTotal))

Breakdown(map, paidOut) ==
    [i \in DOMAIN map |->
        [author |-> map[i].author, amount |-> map[i].amount, paidOut |-> paidOut,
         paidOutDate |-> Absent]]

(* The platform's cut taken on what is left after the cut *)
PlatformEarningsOfNet(totalAmount) == (totalAmount * feePct * (100 - feePct)) \div 100

PlatformEarnings(totalAmount) == totalAmount * feePct

NewOrder(cust, bs, totalAmount, originalTotal, pay, code, discountAmount, paidOut) ==
    [customer |-> cust,
     items |-> [i \in DOMAIN bs |-> [book |-> bs[i], price |-> books[bs[i]].price]],
     totalAmount |-> totalAmount,
     platformEarnings |-> PlatformEarnings(totalAmount),
     authorEarnings |-> totalAmount * 100 - PlatformEarnings(totalAmount),
     authorEarningsBreakdown |->
        Breakdown(EarningsMap(bs, totalAmount, originalTotal), paidOut),
     paymentId |-> pay,
     paymentStatus |-> "completed",
     discountCode |-> code,
     discountAmount |-> discountAmount,
     createdAt |-> now]

(* The request between order.save() and its response: the books it        *)
(* fetched, whose sales counters it still has to save.                     *)
SalesRequest(cust, bs) ==
    [kind |-> "sales", who |-> cust,
     left |-> [i \in DOMAIN bs |-> [book |-> bs[i], salesCount |-> books[bs[i]].salesCount]]]

(* The status of the error response of the secure handler, 0 if none *)
SecureError(cart, pay, code, netfail) ==
    IF cart = <<>> THEN 400
    ELSE IF pay = "" THEN 400
    ELSE LET pricing == CalculateCartPricing(cart, code)
         IN  IF ~pricing.ok THEN pricing.status
             ELSE IF Len(pricing.books) # Len(cart) THEN 400
             ELSE IF pricing.total <= 0 THEN 400
             ELSE VerifyPayPal(pay, pricing.total, netfail)

OrderPostSecure(cust, cart, pay, code, netfail) ==
    LET err == SecureError(cart, pay, code, netfail)
        pricing == CalculateCartPricing(cart, code)
        found == FindBooks(cart)
    IN  /\ IF err # 0 THEN
               /\ resp' = Response("createOrder", err, cust, "")
               /\ UNCHANGED <<orders, reqs>>
           ELSE
               /\ Len(reqs) < MaxReqs
               /\ Len(orders) < MaxOrders
               /\ orders' = Append(orders,
                      NewOrder(cust, found, pricing.total, pricing.originalTotal, pay,
                               pricing.discountCode, pricing.discountAmount, sendDirect))
               /\ reqs' = Append(reqs, SalesRequest(cust, found))
               /\ UNCHANGED resp
        /\ UNCHANGED <<feePct, sendDirect, now, users, books, feeStatus, paypal>>

(* The older handler: no PayPal lookup, the discount is the client's.      *)
(* Saving fails (500) when a required path is empty or a number is NaN:    *)
(* paymentId '' and price / originalTotal with originalTotal 0.            *)

LegacyError(cart, pay) ==
    LET found == FindBooks(cart)
    IN  IF cart = <<>> THEN 400
        ELSE IF Len(found) # Len(cart) THEN 400
        ELSE IF pay = "" \/ PriceSum(cart) = 0 THEN 500
        ELSE 0

OrderPostLegacy(cust, cart, pay, code, discount) ==
    LET err == LegacyError(cart, pay)
        originalTotal == PriceSum(cart)
    IN  /\ IF err # 0 THEN
               /\ resp' = Response("createOrder", err, cust, "")
               /\ UNCHANGED <<orders, reqs>>
           ELSE
               /\ Len(reqs) < MaxReqs
               /\ Len(orders) < MaxOrders
               /\ orders' = Append(orders,
                      NewOrder(cust, cart, originalTotal - discount, originalTotal, pay,
                               code, discount, FALSE))
               /\ reqs' = Append(reqs, SalesRequest(cust, FindBooks(cart)))
               /\ UNCHANGED resp
        /\ UNCHANGED <<feePct, sendDirect, now, users, books, feeStatus, paypal>>

(* An atomic increment of the stored counter, in place of the save of the *)
(* document fetched earlier                                               *)
OrderSalesInc(i) ==
    /\ i \in DOMAIN reqs
    /\ reqs[i].kind = "sales"
    /\ LET r == reqs[i]
           h == Head(r.left)
       IN  /\ books' = [books EXCEPT ![h.book].salesCount = @ + 1]
           /\ IF Len(r.left) = 1 THEN
                  /\ reqs' = RemoveAt(reqs, i)
                  /\ resp' = Response("createOrder", 201, r.who, "")
              ELSE
                  /\ reqs' = [reqs EXCEPT ![i].left = Tail(r.left)]
                  /\ UNCHANGED resp
    /\ UNCHANGED <<feePct, sendDirect, now, users, orders, feeStatus, paypal>>

(* book.salesCount += 1; await book.save(), for the next fetched book;    *)
(* after the last one the order is returned with 201.                      *)
OrderSales(i) ==
    /\ i \in DOMAIN reqs
    /\ reqs[i].kind = "sales"
    /\ LET r == reqs[i]
           h == Head(r.left)
       IN  /\ books' = [books EXCEPT ![h.book].salesCount = h.salesCount + 1]
           /\ IF Len(r.left) = 1 THEN
                  /\ reqs' = RemoveAt(reqs, i)
                  /\ resp' = Response("createOrder", 201, r.who, "")
              ELSE
                  /\ reqs' = [reqs EXCEPT ![i].left = Tail(r.left)]
                  /\ UNCHANGED resp
    /\ UNCHANGED <<feePct, sendDirect, now, users, orders, feeStatus, paypal>>

-----------------------------------------------------------------------------
(* routes/files.js: GET /files/book/:filename *)

(* The names asked for: the PDF of each book, a file no book owns and a    *)
(* name with no file.                                                      *)
FileExists(file) == file # "missing"

(* Order.exists({ customer, paymentStatus: 'completed', 'items.book' }) *)
HasCompletedOrder(who, b) ==
    \E i \in DOMAIN orders :
        /\ orders[i].customer = who
        /\ orders[i].paymentStatus = "completed"
        /\ \E k \in DOMAIN orders[i].items : orders[i].items[k].book = b

PdfStatusSecure(who, file) ==
    IF who = "anon" THEN 401
    ELSE IF who \notin Customers THEN 403
    ELSE IF ~FileExists(file) THEN 404
    ELSE IF file \notin BookIds THEN 404
    ELSE IF ~HasCompletedOrder(who, file) THEN 403
    ELSE 200

GetPdfSecure(who, file) ==
    /\ resp' = Response("getPdf", PdfStatusSecure(who, file), who, file)
    /\ UNCHANGED <<feePct, sendDirect, now, users, books, orders, feeStatus, paypal, reqs>>

PdfStatusLegacy(who, file) ==
    IF ~FileExists(file) THEN 404 ELSE 200

GetPdfLegacy(who, file) ==
    /\ resp' = Response("getPdf", PdfStatusLegacy(who, file), who, file)
    /\ UNCHANGED <<feePct, sendDirect, now, users, books, orders, feeStatus, paypal, reqs>>

-----------------------------------------------------------------------------
(* routes/admin.js: DELETE /admin/books/:id *)

AdminDeleteBook(b) ==
    /\ books' = [books EXCEPT ![b].isDeleted = TRUE]
    /\ resp' = Response("deleteBook", 200, "admin", b)
    /\ UNCHANGED <<feePct, sendDirect, now, users, orders, feeStatus, paypal, reqs>>

-----------------------------------------------------------------------------
(* routes/admin.js: periods.  A calendar period 'YYYY-MM' is <<year,       *)
(* month>>; <<>> is a request without a period; a cycle key                *)
(* 'start_end' is <<start day, end day>>.                                  *)

ParsePeriod(p) == Len(p) = 2 /\ p[1] # 0 /\ p[2] \in 1..12

PeriodRange(p) ==
    [start |-> MkDate(p[1], p[2] - 1, 1), end |-> MkDate(p[1], p[2], 1),
     year |-> p[1], month |-> p[2]]

PreviousMonthPeriod ==
    LET y == GetFullYear(now)
        m == GetMonth(now) + 1
    IN  IF m = 1 THEN <<y - 1, 12>> ELSE <<y, m - 1>>

CalcFeeOnNet(net, pct) == (net * pct) \div 100

CalcFeeFromNet(net, pct) ==
    IF pct <= 0 \/ pct >= 100 THEN 0 ELSE (net * pct) \div (100 - pct)

GetBillingWindowUnclamped(createdAt) ==
    LET billingDay == Max(1, GetDate(createdAt))
        y == GetFullYear(now)
        m == GetMonth(now)
    IN  [periodStart |-> IF GetDate(now) >= billingDay
                         THEN MkDate(y, m, billingDay)
                         ELSE MkDate(y, m - 1, billingDay),
         billingDay |-> billingDay,
         isInTrial |-> now < createdAt + TrialDays,
         trialEndsAt |-> createdAt + TrialDays]

GetBillingWindow(createdAt) ==
    LET billingDay == Min(MaxBillingDay, Max(1, GetDate(createdAt)))
        y == GetFullYear(now)
        m == GetMonth(now)
    IN  [periodStart |-> IF GetDate(now) >= billingDay
                         THEN MkDate(y, m, billingDay)
                         ELSE MkDate(y, m - 1, billingDay),
         billingDay |-> billingDay,
         isInTrial |-> now < createdAt + TrialDays,
         trialEndsAt |-> createdAt + TrialDays]

MakeDateWithClampedDay(y, m, day) ==
    LET lastDay == GetDate(MkDate(y, m + 1, 0))
    IN  MkDate(y, m, Min(day, lastDay))

MakeCycleKey(start, end) == <<start, end>>

(* A cycle that starts with the calendar month before its end *)
LastCycleCalendar(a) ==
    LET billing == GetBillingWindow(users[a].createdAt)
        prevEnd == billing.periodStart
    IN  [start |-> MkDate(GetFullYear(prevEnd), GetMonth(prevEnd) - 1, 1),
         end |-> prevEnd]

(* The last completed cycle of an author: [prevStart, prevEnd) *)
LastCycle(a) ==
    LET billing == GetBillingWindow(users[a].createdAt)
        prevEnd == billing.periodStart
        prevMonth == MkDate(GetFullYear(prevEnd), GetMonth(prevEnd) - 1, 1)
    IN  [start |-> MakeDateWithClampedDay(GetFullYear(prevMonth), GetMonth(prevMonth),
                                          billing.billingDay),
         end |-> prevEnd]

-----------------------------------------------------------------------------
(* PlatformFeeStatus: mark-paid and mark-unpaid *)

FirstMatch(docs, a, period) ==
    IF \E i \in DOMAIN docs : docs[i].author = a /\ docs[i].period = period
    THEN CHOOSE i \in DOMAIN docs :
            /\ docs[i].author = a /\ docs[i].period = period
            /\ \A j \in 1..(i - 1) : ~(docs[j].author = a /\ docs[j].period = period)
    ELSE 0

UpsertByAuthorOnly(docs, a, period, isPaid) ==
    IF \E i \in DOMAIN docs : docs[i].author = a
    THEN LET k == CHOOSE i \in DOMAIN docs : docs[i].author = a
         IN  [docs EXCEPT ![k].isPaid = isPaid]
    ELSE Append(docs, [author |-> a, period |-> period, isPaid |-> isPaid])

AlwaysInsert(docs, a, period, isPaid) ==
    Append(docs, [author |-> a, period |-> period, isPaid |-> isPaid])

(* findOneAndUpdate({ author, period }, { isPaid, ... }, { upsert: true }) *)
(* on a collection with a unique index on (author, period)                 *)
UpsertFeeStatus(docs, a, period, isPaid) ==
    IF FirstMatch(docs, a, period) # 0
    THEN [docs EXCEPT ![FirstMatch(docs, a, period)].isPaid = isPaid]
    ELSE Append(docs, [author |-> a, period |-> period, isPaid |-> isPaid])

MarkOps == {"markPaidLegacy", "markPaid", "markUnpaid",
            "cycleMarkPaid", "cycleMarkUnpaid"}
CycleOps == {"cycleMarkPaid", "cycleMarkUnpaid"}
SetsPaid(op) == op \in {"markPaidLegacy", "markPaid", "cycleMarkPaid"}

MarkRequest(op, a, period) ==
    [kind |-> "mark", op |-> op, who |-> a, period |-> period, step |-> "upsert"]

(* The handler up to its first query: the period is parsed (calendar       *)
(* routes) and the author looked up.                                       *)
MarkBegin(op, a, period) ==
    /\ op \in MarkOps
    /\ IF op \notin CycleOps /\ period # <<>> /\ ~ParsePeriod(period) THEN
           /\ resp' = Response(op, 400, a, "Invalid period")
           /\ UNCHANGED reqs
       ELSE IF a \notin Authors THEN
           /\ resp' = Response(op, 404, a, "Author not found")
           /\ UNCHANGED reqs
       ELSE
           /\ Len(reqs) < MaxReqs
           /\ reqs' = Append(reqs,
                  MarkRequest(op, a,
                      IF period = <<>> /\ op \notin CycleOps
                      THEN PreviousMonthPeriod ELSE period))
           /\ UNCHANGED resp
    /\ UNCHANGED <<feePct, sendDirect, now, users, books, orders, feeStatus, paypal>>

(* The period key the request writes: the given one, or the last           *)
(* completed cycle of the author as of now.                                *)
MarkKey(r) ==
    IF r.period = <<>>
    THEN MakeCycleKey(LastCycle(r.who).start, LastCycle(r.who).end)
    ELSE r.period

MarkUpsert(i) ==
    /\ i \in DOMAIN reqs
    /\ reqs[i].kind = "mark"
    /\ reqs[i].step = "upsert"
    /\ LET r == reqs[i]
       IN  /\ feeStatus' = UpsertFeeStatus(feeStatus, r.who, MarkKey(r), SetsPaid(r.op))
           /\ IF r.op = "markPaidLegacy" THEN
                  /\ reqs' = [reqs EXCEPT ![i].step = "unblock"]
                  /\ UNCHANGED resp
              ELSE
                  /\ reqs' = RemoveAt(reqs, i)
                  /\ resp' = Response(r.op, 200, r.who, "")
    /\ UNCHANGED <<feePct, sendDirect, now, users, books, orders, paypal>>

(* routes/admin.js only: marking paid lifts the author's block *)
MarkUnblock(i) ==
    /\ i \in DOMAIN reqs
    /\ reqs[i].kind = "mark"
    /\ reqs[i].step = "unblock"
    /\ users' = [users EXCEPT ![reqs[i].who].isBlocked = FALSE,
                              ![reqs[i].who].blockedReason = "",
                              ![reqs[i].who].blockedAt = -1]
    /\ reqs' = RemoveAt(reqs, i)
    /\ resp' = Response(reqs[i].op, 200, reqs[i].who, "")
    /\ UNCHANGED <<feePct, sendDirect, now, books, orders, feeStatus, paypal>>

AdminBlock(a) ==
    /\ IF a \in Authors THEN
           /\ users' = [users EXCEPT ![a].isBlocked = TRUE,
                                     ![a].blockedReason = "Unpaid platform fee",
                                     ![a].blockedAt = now]
           /\ resp' = Response("block", 200, a, "")
       ELSE
           /\ resp' = Response("block", 404, a, "")
           /\ UNCHANGED users
    /\ UNCHANGED <<feePct, sendDirect, now, books, orders, feeStatus, paypal, reqs>>

AdminUnblock(a) ==
    /\ IF a \in Authors THEN
           /\ users' = [users EXCEPT ![a].isBlocked = FALSE,
                                     ![a].blockedReason = "",
                                     ![a].blockedAt = -1]
           /\ resp' = Response("unblock", 200, a, "")
       ELSE
           /\ resp' = Response("unblock", 404, a, "")
           /\ UNCHANGED users
    /\ UNCHANGED <<feePct, sendDirect, now, books, orders, feeStatus, paypal, reqs>>

-----------------------------------------------------------------------------
(* The clock *)

Tick ==
    /\ now + TickDays <= MaxDay
    /\ now' = now + TickDays
    /\ UNCHANGED <<feePct, sendDirect, users, books, orders, feeStatus, paypal, reqs, resp>>

-----------------------------------------------------------------------------
(* The initial state: two authors registered, no payout address yet, their *)
(* books uploaded and live, nothing sold.                                  *)

FeePcts == {0, 10, 100}

Init ==
    /\ feePct \in FeePcts
    /\ sendDirect \in BOOLEAN
    /\ now = StartDay
    /\ users = [a \in Authors |->
                    [payoutPaypalEmail |-> "", isBlocked |-> FALSE,
                     blockedReason |-> "", blockedAt |-> -1,
                     createdAt |-> JoinDay(a)]]
    /\ books = [b \in BookIds |->
                    [author |-> BookAuthor(b), price |-> BookPrice(b),
                     isDeleted |-> FALSE, status |-> "approved", salesCount |-> 0]]
    /\ orders = <<>>
    /\ feeStatus = <<>>
    /\ paypal = PayPalOrders
    /\ reqs = <<>>
    /\ resp = Response("none", 0, "", "")

-----------------------------------------------------------------------------
(* The order ledger and the PDF access check *)

(* The requests made.  A request for an order is <<cart, PayPal id, the    *)
(* call to PayPal fails, coupon code>>; carts have one entry per line.     *)
SecureRequests ==
    {<<c, "p1", FALSE, NoCoupon>> :
        c \in {<<>>, <<"b1">>, <<"b3">>, <<"b2", "b1">>, <<"b1", "b1">>}}
    \cup {<<<<"b2", "b1">>, p, FALSE, NoCoupon>> : p \in {"p3", "p4", "px", ""}}
    \cup {<<<<"b2", "b1">>, "p1", TRUE, NoCoupon>>}
    \cup {<<c, "p2", FALSE, "HALF">> : c \in {<<"b1">>, <<"b1", "b3">>, <<"b2", "b1">>}}
    \cup {<<<<"b1">>, "p2", FALSE, code>> : code \in {"OLD", "OFF", "A1TEN", "BOGUS"}}

(* The older handler is sent <<cart, PayPal id, discountAmount>> *)
LegacyRequests ==
    {<<c, "p3", d>> :
        c \in {<<>>, <<"b1">>, <<"b3">>, <<"b2", "b1">>, <<"b1", "b1">>}, d \in {0, 250}}
    \cup {<<<<"b1">>, "", 0>>, <<<<"b1">>, "p3", 2000>>}

PdfRequests == {<<"u1", "b1">>, <<"u2", "b1">>, <<"u1", "b2">>, <<"anon", "b1">>,
                <<"a1", "b1">>, <<"u1", "orphan">>, <<"u1", "missing">>}

PostOrder ==
    \/ \E cust \in Customers, rq \in SecureRequests :
            OrderPostSecure(cust, rq[1], rq[2], rq[4], rq[3])
    \/ \E rq \in LegacyRequests :
            OrderPostLegacy("u1", rq[1], rq[2], NoCoupon, rq[3])
    \/ \E i \in 1..MaxReqs : OrderSales(i)

NextOrders ==
    \/ PostOrder
    \/ \E rq \in PdfRequests : GetPdfSecure(rq[1], rq[2])
    \/ \E rq \in PdfRequests : GetPdfLegacy(rq[1], rq[2])
    \/ AdminDeleteBook("b2")

InitOrders == Init /\ feePct = 10 /\ sendDirect

SpecOrders == InitOrders /\ [][NextOrders]_vars

(* The ledger alone, for every fee percentage and both payout modes *)

SpecLedger == Init /\ [][PostOrder]_vars

-----------------------------------------------------------------------------
(* Claims about the order ledger and the PDF access check *)

LastOrder(os) == os[Len(os)]

OrderBookIds(o) == [i \in DOMAIN o.items |-> o.items[i].book]

(* The total the server computes for an order's cart and coupon from the   *)
(* catalog as it is; -1 when pricing fails.                                *)
ServerTotal(o) ==
    LET pricing == CalculateCartPricing(OrderBookIds(o), o.discountCode)
    IN  IF pricing.ok THEN pricing.total ELSE -1

PaidInFull(o) ==
    /\ o.paymentId \in DOMAIN paypal
    /\ paypal[o.paymentId].status = "COMPLETED"
    /\ paypal[o.paymentId].value = ServerTotal(o)

(* C1: order creation is all-or-nothing with respect to payment            *)
(* verification: an Order is added only when PayPal knows the payment as   *)
(* COMPLETED for the server-computed total, and a request answered with an *)
(* error adds no Order and changes no book (no salesCount).                *)
C1_AllOrNothing ==
    [][ /\ Len(orders') > Len(orders) => PaidInFull(LastOrder(orders'))
        /\ (resp' # resp /\ resp'.op = "createOrder" /\ resp'.status # 201)
              => (orders' = orders /\ books' = books) ]_vars

(* C2: every Order persisted corresponds to a PayPal order that at         *)
(* creation time is COMPLETED, in USD, for exactly the total the server    *)
(* computes from the current catalog and coupon.                           *)
C2_PersistedOrderVerified ==
    [][ Len(orders') > Len(orders) =>
            /\ PaidInFull(LastOrder(orders'))
            /\ paypal[LastOrder(orders').paymentId].currency = "USD"
            /\ LastOrder(orders').totalAmount = ServerTotal(LastOrder(orders')) ]_vars

(* C3: a PDF is served only to a requester with a completed order that     *)
(* contains the book owning the PDF.                                       *)
C3_PdfOnlyToBuyer ==
    (resp.op = "getPdf" /\ resp.status = 200) => HasCompletedOrder(resp.who, resp.data)

Abs(x) == IF x < 0 THEN -x ELSE x

BreakdownSum(o) ==
    SumSeq([i \in DOMAIN o.authorEarningsBreakdown |-> o.authorEarningsBreakdown[i].amount])

-----------------------------------------------------------------------------
(* The fee status records under concurrent admin requests *)

MarkRequests ==
    { <<"markPaidLegacy", "a1", <<>>>>,
      <<"markPaid", "a1", <<2025, 12>>>>,
      <<"markUnpaid", "a1", <<2025, 12>>>>,
      <<"markPaid", "a1", <<2026, 1>>>>,
      <<"markPaid", "a1", <<2026, 13>>>>,
      <<"markUnpaid", "u1", <<>>>>,
      <<"cycleMarkPaid", "a2", <<>>>>,
      <<"cycleMarkUnpaid", "a2", <<>>>> }

NextFeeStatus ==
    \/ \E rq \in MarkRequests : MarkBegin(rq[1], rq[2], rq[3])
    \/ \E i \in 1..MaxReqs : MarkUpsert(i)
    \/ \E i \in 1..MaxReqs : MarkUnblock(i)
    \/ AdminBlock("a1")
    \/ AdminUnblock("a1")

SpecFeeStatus == InitOrders /\ [][NextFeeStatus]_vars

FeeDocs(docs, a, period) ==
    {i \in DOMAIN docs : docs[i].author = a /\ docs[i].period = period}

PaidIn(docs, a, period) ==
    \E i \in FeeDocs(docs, a, period) : docs[i].isPaid

(* The step of request i that runs its findOneAndUpdate *)
UpsertStepOf(i) ==
    /\ i \in DOMAIN reqs
    /\ reqs[i].kind = "mark"
    /\ reqs[i].step = "upsert"
    /\ reqs' \in {RemoveAt(reqs, i), [reqs EXCEPT ![i].step = "unblock"]}

(* C6: under any interleaving of mark-paid and mark-unpaid requests, each  *)
(* write leaves exactly one PlatformFeeStatus record for the (author,      *)
(* period key) it names, holding the isPaid value of that call, and no     *)
(* key ever has two records.                                               *)
C6_OneRecordLastValue ==
    [][ /\ \A i \in 1..MaxReqs :
             UpsertStepOf(i) =>
               /\ Cardinality(FeeDocs(feeStatus', reqs[i].who, MarkKey(reqs[i]))) = 1
               /\ PaidIn(feeStatus', reqs[i].who, MarkKey(reqs[i])) = SetsPaid(reqs[i].op)
        /\ \A j, k \in DOMAIN feeStatus' :
             (feeStatus'[j].author = feeStatus'[k].author
                /\ feeStatus'[j].period = feeStatus'[k].period) => j = k ]_vars

(* A mark-unpaid has answered, a later mark-paid of routes/admin.js has    *)
(* written the same key and is still in flight, and a second key exists.   *)
C6_Witness ==
    /\ Cardinality(FeeDocs(feeStatus, "a1", <<2025, 12>>)) = 1
    /\ PaidIn(feeStatus, "a1", <<2025, 12>>)
    /\ Len(feeStatus) >= 2
    /\ resp.op = "markUnpaid" /\ resp.status = 200 /\ resp.who = "a1"
    /\ \E i \in DOMAIN reqs : reqs[i].op = "markPaidLegacy" /\ reqs[i].step = "unblock"

(* C10 as stated: once an (author, period) is paid it never becomes        *)
(* unpaid again.                                                           *)
C10_PaidIsTerminal ==
    [][ \A i \in DOMAIN feeStatus :
          feeStatus[i].isPaid =>
            PaidIn(feeStatus', feeStatus[i].author, feeStatus[i].period) ]_vars

(* C10: a paid (author, period) becomes unpaid only by the write of a      *)
(* mark-unpaid request for that same author and period key.                *)
C10_UnpaidOnlyByMarkUnpaid ==
    [][ \A i \in DOMAIN feeStatus :
          (feeStatus[i].isPaid
             /\ ~PaidIn(feeStatus', feeStatus[i].author, feeStatus[i].period)) =>
            \E k \in 1..MaxReqs :
               /\ UpsertStepOf(k)
               /\ ~SetsPaid(reqs[k].op)
               /\ reqs[k].who = feeStatus[i].author
               /\ MarkKey(reqs[k]) = feeStatus[i].period ]_vars

(* The mark-paid of routes/admin.js has written the key and is still in    *)
(* flight, and the record is unpaid again.                                 *)
C10_Witness ==
    /\ Cardinality(FeeDocs(feeStatus, "a1", <<2025, 12>>)) = 1
    /\ ~PaidIn(feeStatus, "a1", <<2025, 12>>)
    /\ \E i \in DOMAIN reqs : reqs[i].op = "markPaidLegacy" /\ reqs[i].step = "unblock"

-----------------------------------------------------------------------------
(* Fee reads.  Money in a row is in cents, as toFixed(2) rounds it; the    *)
(* sums themselves are in 1/100 cent like the earnings of an order.        *)


(* User.find({ role: 'author' }).sort({ createdAt: -1 }) *)
AuthorsNewestFirst == <<"a2", "a1">>

HasRow(o, a) == \E i \in DOMAIN o.authorEarningsBreakdown :
                    o.authorEarningsBreakdown[i].author = a

OrderNet(o, a) ==
    LET rows == SelectSeq(o.authorEarningsBreakdown, LAMBDA r : r.author = a)
    IN  IF rows = <<>> THEN 0 ELSE Head(rows).amount

(* The accumulation loop shared by the fee reads, over the completed       *)
(* orders of os created in [from, to) that pay author a; skipFree is the   *)
(* 'net <= 0: continue' of the admin routes.                               *)
RECURSIVE FeeTotals(_, _, _, _, _)
FeeTotals(os, a, from, to, skipFree) ==
    IF os = <<>> THEN [feeDue |-> 0, grossSales |-> 0, salesCount |-> 0]
    ELSE LET rest == FeeTotals(Tail(os), a, from, to, skipFree)
             o == Head(os)
             net == OrderNet(o, a)
             fee == CalcFeeFromNet(net, feePct)
         IN  IF /\ o.paymentStatus = "completed"
                /\ o.createdAt >= from /\ o.createdAt < to
                /\ HasRow(o, a)
                /\ (skipFree => net > 0)
             THEN [feeDue |-> rest.feeDue + fee,
                   grossSales |-> rest.grossSales + net + fee,
                   salesCount |-> rest.salesCount + 1]
             ELSE rest

NoTotals == [feeDue |-> 0, grossSales |-> 0, salesCount |-> 0]

FeeRow(a, start, end, dueDate, t, salesCount, isPaid, isOverdue) ==
    [author |-> a, start |-> start, end |-> end, dueDate |-> dueDate,
     grossSales |-> RoundCents(t.grossSales, 100),
     feeDue |-> RoundCents(t.feeDue, 100),
     salesCount |-> salesCount, isPaid |-> isPaid, isOverdue |-> isOverdue]

ReadOnly == UNCHANGED <<feePct, sendDirect, now, users, books, orders, feeStatus,
                        paypal, reqs>>

(* routes/admin.js GET /fees *)
GetFeesLegacy(p) ==
    LET period == IF p = <<>> THEN PreviousMonthPeriod ELSE p
    IN  /\ IF ~ParsePeriod(period) THEN
               resp' = Response("getFeesLegacy", 400, "admin", "Invalid period")
           ELSE LET range == PeriodRange(period)
                    dueDate == MkDate(range.year, range.month, DueDay)
                    row(a) ==
                        LET stats == FeeTotals(orders, a, range.start, range.end, TRUE)
                            isPaid == PaidIn(feeStatus, a, period)
                        IN  FeeRow(a, range.start, range.end, dueDate, stats, stats.salesCount,
                                   isPaid, ~isPaid /\ now >= dueDate)
                IN  resp' = RowsResponse("getFeesLegacy", "admin",
                        [i \in DOMAIN AuthorsNewestFirst |-> row(AuthorsNewestFirst[i])])
        /\ ReadOnly

(* The admin routes with the trial: GET /fees *)
GetFees(p) ==
    LET period == IF p = <<>> THEN PreviousMonthPeriod ELSE p
    IN  /\ IF ~ParsePeriod(period) THEN
               resp' = Response("getFees", 400, "admin", "Invalid period")
           ELSE LET range == PeriodRange(period)
                    dueDate == MkDate(range.year, range.month, DueDay)
                    row(a) ==
                        LET trialEndsAt == users[a].createdAt + TrialDays
                            effectiveStart == Max(trialEndsAt, range.start)
                            stats == IF effectiveStart < range.end
                                     THEN FeeTotals(orders, a, effectiveStart, range.end, TRUE)
                                     ELSE NoTotals
                            isPaid == PaidIn(feeStatus, a, period)
                        IN  FeeRow(a, range.start, range.end, dueDate, stats, Absent,
                                   isPaid, ~isPaid /\ now >= dueDate)
                IN  resp' = RowsResponse("getFees", "admin",
                        [i \in DOMAIN AuthorsNewestFirst |-> row(AuthorsNewestFirst[i])])
        /\ ReadOnly

(* GET /cycle-fees: each author's last completed billing cycle *)
CycleFees ==
    LET row(a) ==
            LET billing == GetBillingWindow(users[a].createdAt)
                cycle == LastCycle(a)
                effectiveStart == Max(billing.trialEndsAt, cycle.start)
                stats == IF effectiveStart < cycle.end
                         THEN FeeTotals(orders, a, effectiveStart, cycle.end, TRUE)
                         ELSE NoTotals
                dueDate == MkDate(GetFullYear(cycle.end), GetMonth(cycle.end) + 1, DueDay)
                isPaid == PaidIn(feeStatus, a, MakeCycleKey(cycle.start, cycle.end))
            IN  FeeRow(a, cycle.start, cycle.end, dueDate, stats, stats.salesCount, isPaid,
                       ~billing.isInTrial /\ ~isPaid /\ now > dueDate)
    IN  /\ resp' = RowsResponse("cycleFees", "admin",
                [i \in DOMAIN AuthorsNewestFirst |-> row(AuthorsNewestFirst[i])])
        /\ ReadOnly

-----------------------------------------------------------------------------
(* routes/authors.js: the dashboard and the payout settings, each ending   *)
(* with the Author Gate sync.  A handler reads the user, and its           *)
(* Book.updateMany runs as a later step.                                   *)

CurrentMonthPeriod == <<GetFullYear(now), GetMonth(now) + 1>>

GateRequest(op, a, email, rows) ==
    [kind |-> "gate", op |-> op, who |-> a, email |-> email, rows |-> rows]

DashboardRows(a) ==
    LET trialEndsAt == users[a].createdAt + TrialDays
        isInFirst30Days == now < trialEndsAt
        currentRange == PeriodRange(CurrentMonthPeriod)
        prevRange == PeriodRange(PreviousMonthPeriod)
        effectiveCurrentStart == Max(currentRange.start, trialEndsAt)
        effectivePrevStart == Max(prevRange.start, trialEndsAt)
        current == IF ~isInFirst30Days /\ effectiveCurrentStart < currentRange.end
                   THEN FeeTotals(orders, a, effectiveCurrentStart, currentRange.end, FALSE)
                   ELSE NoTotals
        prev == IF effectivePrevStart < prevRange.end
                THEN FeeTotals(orders, a, effectivePrevStart, prevRange.end, FALSE)
                ELSE NoTotals
        isPaid == PaidIn(feeStatus, a, PreviousMonthPeriod)
        lastMonthDueDate ==
            MkDate(GetFullYear(prevRange.end), GetMonth(prevRange.end), DueDay)
        currentMonthDueDate ==
            MkDate(GetFullYear(currentRange.end), GetMonth(currentRange.end), DueDay)
    IN  << FeeRow(a, prevRange.start, prevRange.end, lastMonthDueDate, prev, Absent, isPaid,
                  ~isPaid /\ now > lastMonthDueDate /\ prev.feeDue > 0),
           FeeRow(a, currentRange.start, currentRange.end, currentMonthDueDate, current,
                  Absent, FALSE, FALSE),
           FeeRow(a, prevRange.start, prevRange.end, lastMonthDueDate,
                  IF isInFirst30Days THEN NoTotals ELSE prev, Absent, isPaid, FALSE) >>

DashboardBegin(a) ==
    /\ Len(reqs) < MaxReqs
    /\ reqs' = Append(reqs,
           GateRequest("dashboard", a, users[a].payoutPaypalEmail, DashboardRows(a)))
    /\ UNCHANGED <<feePct, sendDirect, now, users, books, orders, feeStatus, paypal, resp>>

PayoutGet(a) ==
    /\ Len(reqs) < MaxReqs
    /\ reqs' = Append(reqs, GateRequest("getPayout", a, users[a].payoutPaypalEmail, <<>>))
    /\ UNCHANGED <<feePct, sendDirect, now, users, books, orders, feeStatus, paypal, resp>>

EmailInputs == {"", " ", "bad", "Pay@X.io"}

(* /^[^\s@]+@[^\s@]+\.[^\s@]+$/ on the trimmed input *)
EmailFormatOk(e) == e = "Pay@X.io"

(* payoutPaypalEmail ? payoutPaypalEmail.trim().toLowerCase() : null *)
StoredEmail(e) == IF e = "Pay@X.io" THEN "pay@x.io" ELSE ""

PayoutPost(a, e) ==
    IF e \notin {"", " "} /\ ~EmailFormatOk(e) THEN
        /\ resp' = Response("postPayout", 400, a, "Invalid email format")
        /\ UNCHANGED <<feePct, sendDirect, now, users, books, orders, feeStatus, paypal, reqs>>
    ELSE
        /\ Len(reqs) < MaxReqs
        /\ users' = [users EXCEPT ![a].payoutPaypalEmail = StoredEmail(e)]
        /\ reqs' = Append(reqs, GateRequest("postPayout", a, StoredEmail(e), <<>>))
        /\ UNCHANGED <<feePct, sendDirect, now, books, orders, feeStatus, paypal, resp>>

GateAllBooks(bks, a, from, to) ==
    [b \in BookIds |->
        IF bks[b].author = a /\ bks[b].status = from
        THEN [bks[b] EXCEPT !.status = to] ELSE bks[b]]

(* Book.updateMany({ author, isDeleted: false, status: from }, { status: to }) *)
GateUpdateMany(bks, a, from, to) ==
    [b \in BookIds |->
        IF bks[b].author = a /\ ~bks[b].isDeleted /\ bks[b].status = from
        THEN [bks[b] EXCEPT !.status = to] ELSE bks[b]]

GateSync(i) ==
    /\ i \in DOMAIN reqs
    /\ reqs[i].kind = "gate"
    /\ LET r == reqs[i]
           hasPaypal == r.email # ""
       IN  /\ books' = IF hasPaypal
                       THEN GateUpdateMany(books, r.who, "pending", "approved")
                       ELSE GateUpdateMany(books, r.who, "approved", "pending")
           /\ resp' = IF r.op = "dashboard"
                      THEN RowsResponse("dashboard", r.who, r.rows)
                      ELSE Response(r.op, 200, r.who, r.email)
    /\ reqs' = RemoveAt(reqs, i)
    /\ UNCHANGED <<feePct, sendDirect, now, users, orders, feeStatus, paypal>>

-----------------------------------------------------------------------------
(* Sales over the trial window and the months after it, and the fee reads  *)

FeePeriods == {<<>>, <<2026, 1>>, <<2026, 2>>, <<2026, 0>>}

NextTrial ==
    \/ OrderPostSecure("u1", <<"b2", "b1">>, "p1", NoCoupon, FALSE)
    \/ \E i \in 1..MaxReqs : OrderSales(i)
    \/ Tick
    \/ \E p \in FeePeriods : GetFeesLegacy(p)
    \/ \E p \in FeePeriods : GetFees(p)
    \/ CycleFees
    \/ DashboardBegin("a1")
    \/ \E i \in 1..MaxReqs : GateSync(i)

SpecTrial == InitOrders /\ [][NextTrial]_vars

FeeOps == {"getFeesLegacy", "getFees", "cycleFees", "dashboard"}

(* The orders that are past the trial of author a *)
BillableOrders(os, a) ==
    SelectSeq(os, LAMBDA o : o.createdAt >= users[a].createdAt + TrialDays)

(* C5: in every fee read (calendar-month GET /fees, GET /cycle-fees, the   *)
(* author dashboard) an order created before the author's trial end adds   *)
(* nothing to that author's feeDue, grossSales or salesCount: no row       *)
(* reports more than the orders past the trial give for its window.        *)
C5_TrialOrdersExcluded ==
    (resp.op \in FeeOps /\ resp.status = 200) =>
        \A i \in DOMAIN resp.rows :
            LET row == resp.rows[i]
                t == FeeTotals(BillableOrders(orders, row.author), row.author,
                               row.start, row.end, TRUE)
            IN  /\ row.feeDue <= RoundCents(t.feeDue, 100)
                /\ row.grossSales <= RoundCents(t.grossSales, 100)
                /\ row.salesCount <= t.salesCount

-----------------------------------------------------------------------------
(* routes/books.js: the public catalog.  A response lists book ids.        *)

Reverse(s) == [i \in DOMAIN s |-> s[Len(s) + 1 - i]]

(* sort({ salesCount: -1 }) *)
RECURSIVE SortBySales(_)
SortBySales(s) ==
    IF s = <<>> THEN <<>>
    ELSE LET top == CHOOSE i \in DOMAIN s :
                      /\ \A j \in DOMAIN s : books[s[j]].salesCount <= books[s[i]].salesCount
                      /\ \A j \in 1..(i - 1) : books[s[j]].salesCount < books[s[i]].salesCount
         IN  <<s[top]>> \o SortBySales(RemoveAt(s, top))

NotBlocked(b) == ~users[books[b].author].isBlocked

(* The older routes: every book that is not deleted *)
LegacyCatalog == SelectSeq(BookOrder, LAMBDA b : ~books[b].isDeleted)

(* The newer routes: approved, not deleted, author not blocked *)
GatedCatalog ==
    SelectSeq(SelectSeq(BookOrder,
                        LAMBDA b : ~books[b].isDeleted /\ books[b].status = "approved"),
              NotBlocked)

ListBooksLegacy ==
    /\ resp' = RowsResponse("listBooksLegacy", "public", Reverse(LegacyCatalog))
    /\ ReadOnly

ListBooks ==
    /\ resp' = RowsResponse("listBooks", "public", Reverse(GatedCatalog))
    /\ ReadOnly

BestsellersLegacy ==
    /\ resp' = RowsResponse("bestsellersLegacy", "public", SortBySales(LegacyCatalog))
    /\ ReadOnly

Bestsellers ==
    /\ resp' = RowsResponse("bestsellers", "public",
                   SelectSeq(SortBySales(SelectSeq(BookOrder,
                        LAMBDA b : ~books[b].isDeleted /\ books[b].status = "approved")),
                             NotBlocked))
    /\ ReadOnly

GetBookLegacy(b) ==
    /\ resp' = IF b \notin BookIds \/ books[b].isDeleted
               THEN Response("getBookLegacy", 404, "public", b)
               ELSE RowsResponse("getBookLegacy", "public", <<b>>)
    /\ ReadOnly

GetBook(b) ==
    /\ resp' = IF b \notin BookIds \/ books[b].isDeleted \/ ~NotBlocked(b)
               THEN Response("getBook", 404, "public", b)
               ELSE RowsResponse("getBook", "public", <<b>>)
    /\ ReadOnly

(* routes/admin.js PATCH /books/:id/status *)
AdminSetStatus(b, status) ==
    /\ IF status \notin {"approved", "rejected"} THEN
           /\ resp' = Response("setStatus", 400, "admin", b)
           /\ UNCHANGED books
       ELSE IF b \notin BookIds THEN
           /\ resp' = Response("setStatus", 404, "admin", b)
           /\ UNCHANGED books
       ELSE
           /\ books' = [books EXCEPT ![b].status = status]
           /\ resp' = Response("setStatus", 200, "admin", b)
    /\ UNCHANGED <<feePct, sendDirect, now, users, orders, feeStatus, paypal, reqs>>

-----------------------------------------------------------------------------
(* The Author Gate, the admin's block and the catalog *)

NextGate ==
    \/ PayoutGet("a2")
    \/ \E e \in EmailInputs : PayoutPost("a2", e)
    \/ DashboardBegin("a2")
    \/ \E i \in 1..MaxReqs : GateSync(i)
    \/ AdminBlock("a2")
    \/ AdminUnblock("a2")
    \/ \E st \in {"approved", "rejected", "pending"} : AdminSetStatus("b3", st)
    \/ AdminDeleteBook("b2")
    \/ ListBooksLegacy
    \/ ListBooks
    \/ BestsellersLegacy
    \/ Bestsellers
    \/ GetBookLegacy("b3")
    \/ GetBook("b3")

SpecGate == InitOrders /\ [][NextGate]_vars

(* The step of gate request i that runs its Book.updateMany *)
GateStepOf(i) ==
    /\ i \in DOMAIN reqs
    /\ reqs[i].kind = "gate"
    /\ reqs' = RemoveAt(reqs, i)
    /\ resp'.op = reqs[i].op /\ resp'.who = reqs[i].who /\ resp'.status = 200

GateFrom(r) == IF r.email # "" THEN "pending" ELSE "approved"
GateTo(r) == IF r.email # "" THEN "approved" ELSE "pending"

(* C7 as stated: each gate sync moves all of the author's pending books to *)
(* approved (payout address set) or all approved books to pending (not     *)
(* set), and leaves rejected books and other authors' books unchanged.     *)
C7_GateMovesAllBooks ==
    [][ \A i \in 1..MaxReqs :
          GateStepOf(i) =>
            \A b \in BookIds :
               IF books[b].author = reqs[i].who /\ books[b].status = GateFrom(reqs[i])
               THEN books'[b] = [books[b] EXCEPT !.status = GateTo(reqs[i])]
               ELSE books'[b] = books[b] ]_vars

(* C7: each gate sync moves the calling author's pending books that are    *)
(* not deleted to approved when the payout address the request read is     *)
(* non-empty, and the approved ones that are not deleted to pending when   *)
(* it is empty; deleted books, rejected books and the books of every other *)
(* author are unchanged.                                                   *)
C7_GateMovesLiveBooks ==
    [][ \A i \in 1..MaxReqs :
          GateStepOf(i) =>
            \A b \in BookIds :
               IF /\ books[b].author = reqs[i].who
                  /\ ~books[b].isDeleted
                  /\ books[b].status = GateFrom(reqs[i])
               THEN books'[b] = [books[b] EXCEPT !.status = GateTo(reqs[i])]
               ELSE books'[b] = books[b] ]_vars

(* A payout address was saved and its sync has answered: the author's live *)
(* book is approved, the deleted one is still pending, a rejected book and *)
(* the other author's book are as they were.                               *)
C7_Witness ==
    /\ resp.op = "postPayout" /\ resp.status = 200 /\ resp.data = "pay@x.io"
    /\ books["b2"].isDeleted /\ books["b2"].status = "pending"
    /\ books["b3"].status \in {"approved", "rejected"}
    /\ books["b1"].status = "approved"

CatalogOps == {"listBooks", "listBooksLegacy", "bestsellers", "bestsellersLegacy",
               "getBook", "getBookLegacy"}

(* A catalog read: a step that answers and changes nothing else *)
CatalogRead(ops) ==
    /\ resp'.op \in ops
    /\ resp'.status = 200
    /\ UNCHANGED <<feePct, sendDirect, now, users, books, orders, feeStatus, paypal, reqs>>

(* C8: no public catalog read (list, bestsellers, single book) returns a   *)
(* book whose author is blocked at the time of the read, whatever the      *)
(* book's status.                                                          *)
C8_NoBlockedAuthorInCatalog ==
    [][ CatalogRead(CatalogOps) =>
          \A i \in DOMAIN resp'.rows :
             ~users[books[resp'.rows[i]].author].isBlocked ]_vars

(* C9: a payout-settings fetch by an author without payout address leaves  *)
(* none of their books that are not deleted approved, and the public       *)
(* listing returns no pending book of an author without payout address.    *)
C9_NoPayoutEmailHidesBooks ==
    [][ /\ \A i \in 1..MaxReqs :
             (GateStepOf(i) /\ reqs[i].op = "getPayout" /\ reqs[i].email = "") =>
                \A b \in BookIds :
                   (books'[b].author = reqs[i].who /\ ~books'[b].isDeleted) =>
                      books'[b].status # "approved"
        /\ CatalogRead({"listBooks", "listBooksLegacy"}) =>
             \A i \in DOMAIN resp'.rows :
                ~(/\ users[books[resp'.rows[i]].author].payoutPaypalEmail = ""
                  /\ books[resp'.rows[i]].status = "pending") ]_vars

-----------------------------------------------------------------------------
(* The overdue flag of the fee reads *)

AdminFeeOps == {"getFeesLegacy", "getFees", "cycleFees"}

OverdueAsSpecified(row) ==
    row.isOverdue = (~row.isPaid /\ now >= row.dueDate /\ row.feeDue > 0)

(* C11: every author row of the fee endpoints has its overdue flag true    *)
(* exactly when the period is not marked paid, now is at or after the      *)
(* row's due date, and the fee due for the period is greater than 0.  The  *)
(* admin routes are judged when they answer, the dashboard's last-month    *)
(* row when the handler computes it.                                       *)
C11_OverdueFlag ==
    [][ /\ CatalogRead(AdminFeeOps) =>
             \A i \in DOMAIN resp'.rows : OverdueAsSpecified(resp'.rows[i])
        /\ (Len(reqs') = Len(reqs) + 1 /\ reqs'[Len(reqs')].kind = "gate"
              /\ reqs'[Len(reqs')].op = "dashboard") =>
             OverdueAsSpecified(reqs'[Len(reqs')].rows[1]) ]_vars

-----------------------------------------------------------------------------
(* The pricing engine and the apply-coupon route, on carts and coupons of  *)
(* every kind, with authors changing prices.                               *)

PricingResponse(op, cart, code, r) ==
    IF r.ok
    THEN [op |-> op, status |-> 200, who |-> "", data |-> "", request |-> <<cart, code>>,
          rows |-> r.discountedItems, originalTotal |-> r.originalTotal,
          discountAmount |-> r.discountAmount, total |-> r.total,
          discountPercentage |-> r.discountPercentage]
    ELSE [op |-> op, status |-> r.status, who |-> "", data |-> r.message,
          request |-> <<cart, code>>, rows |-> <<>>]

(* A caller of calculateCartPricing answers with its result *)
PriceCart(cart, code) ==
    /\ resp' = PricingResponse("pricing", cart, code, CalculateCartPricing(cart, code))
    /\ ReadOnly

(* routes/books.js POST /apply-coupon: its own copy of the coupon rules,   *)
(* over Book.find({ _id: { $in: bookIds } }), deleted books included       *)
ApplyCouponResult(bookIds, code) ==
    LET found == SelectSeq(BookOrder, LAMBDA b : b \in Range(bookIds))
        totalAmount == PriceSum(found)
    IN  IF code = NoCoupon \/ bookIds = <<>> THEN
            PricingError(400, "Code and book IDs are required")
        ELSE IF code \notin DOMAIN Coupons THEN
            PricingError(404, "Invalid coupon code")
        ELSE
            LET coupon == Coupons[code]
                item(b) ==
                    LET pct == IF IsEligible(coupon, b) THEN coupon.pct ELSE 0
                    IN  [bookId |-> b,
                         originalPrice |-> books[b].price,
                         discountedPrice |-> RoundCents(books[b].price * (100 - pct), 100),
                         discountAmount |-> RoundCents(books[b].price * pct, 100),
                         isDiscounted |-> IsEligible(coupon, b)]
                items == [i \in DOMAIN found |-> item(found[i])]
                newTotal == SumSeq([i \in DOMAIN items |-> items[i].discountedPrice])
            IN  IF ~coupon.isActive THEN
                    PricingError(400, "This coupon is not active")
                ELSE IF coupon.validFrom >= 0 /\ now < coupon.validFrom THEN
                    PricingError(400, "This coupon is not yet valid")
                ELSE IF Expired(coupon) THEN
                    PricingError(400, "This coupon has expired")
                ELSE IF found = <<>> THEN
                    PricingError(400, "No valid books found")
                ELSE IF /\ coupon.scope = "author"
                        /\ ~\E i \in DOMAIN found :
                                books[found[i]].author = coupon.author THEN
                    PricingError(400, "This coupon is only valid for books by the author")
                ELSE
                    [ok |-> TRUE, books |-> found, originalTotal |-> totalAmount,
                     discountAmount |-> totalAmount - newTotal,
                     total |-> newTotal,
                     discountCode |-> code,
                     discountPercentage |-> coupon.pct,
                     discountedItems |-> items]

ApplyCoupon(cart, code) ==
    /\ resp' = PricingResponse("applyCoupon", cart, code, ApplyCouponResult(cart, code))
    /\ ReadOnly

(* routes/books.js PUT /books/:id, the price field *)
AuthorSetPrice(a, b, price) ==
    /\ IF users[a].isBlocked THEN
           /\ resp' = Response("putBook", 403, a, b)
           /\ UNCHANGED books
       ELSE IF b \notin BookIds THEN
           /\ resp' = Response("putBook", 404, a, b)
           /\ UNCHANGED books
       ELSE IF books[b].author # a THEN
           /\ resp' = Response("putBook", 403, a, b)
           /\ UNCHANGED books
       ELSE
           /\ books' = [books EXCEPT ![b].price = price]
           /\ resp' = Response("putBook", 200, a, b)
    /\ UNCHANGED <<feePct, sendDirect, now, users, orders, feeStatus, paypal, reqs>>

PricingCarts == {<<>>, <<"b1">>, <<"b2">>, <<"b3">>, <<"b1", "b2">>, <<"b2", "b3">>,
                 <<"b1", "b1">>, <<"b2", "b1", "b3">>}

PriceChanges == {<<"a1", "b1", 94>>, <<"a2", "b2", 94>>, <<"a2", "b2", 999>>,
                 <<"a2", "b1", 1>>}

NextPricing ==
    \/ \E cart \in PricingCarts, code \in CouponCodes \cup {NoCoupon} : PriceCart(cart, code)
    \/ \E cart \in PricingCarts, code \in CouponCodes \cup {NoCoupon} : ApplyCoupon(cart, code)
    \/ \E c \in PriceChanges : AuthorSetPrice(c[1], c[2], c[3])
    \/ AdminDeleteBook("b2")

SpecPricing == InitOrders /\ [][NextPricing]_vars

PricingOps == {"pricing", "applyCoupon"}

(* A pricing call: a step that answers, with a result or an error, and     *)
(* changes nothing else                                                    *)
PricingCall ==
    /\ resp'.op \in PricingOps
    /\ UNCHANGED <<feePct, sendDirect, now, users, books, orders, feeStatus, paypal, reqs>>

(* A pricing answer for a cart that is not empty and a coupon that exists *)
PricedWithCoupon(r) ==
    /\ r.op \in PricingOps
    /\ r.request[1] # <<>>
    /\ r.request[2] \in DOMAIN Coupons

PastValidTo(code) == Coupons[code].validTo >= 0 /\ Coupons[code].validTo < now

(* C12 as stated: pricing with a coupon whose validTo is earlier than now  *)
(* always fails with the 'expired' error, whatever isActive and validFrom. *)
C12_PastValidToAlwaysExpired ==
    [][ (PricingCall /\ PricedWithCoupon(resp')
           /\ PastValidTo(resp'.request[2])) =>
          (resp'.status = 400 /\ resp'.data = "This coupon has expired") ]_vars

(* C12: pricing a non-empty cart with a coupon whose validTo is earlier    *)
(* than now always fails: with 'not active' when isActive is false, else   *)
(* with 'not yet valid' when validFrom is later than now, else with        *)
(* 'expired'.                                                              *)
C12_PastValidToAlwaysFails ==
    [][ (PricingCall /\ PricedWithCoupon(resp')
           /\ PastValidTo(resp'.request[2])) =>
          LET c == Coupons[resp'.request[2]]
          IN  /\ resp'.status = 400
              /\ resp'.data =
                   IF ~c.isActive THEN "This coupon is not active"
                   ELSE IF c.validFrom > now THEN "This coupon is not yet valid"
                   ELSE "This coupon has expired" ]_vars

(* An active coupon past its validTo, with a validFrom that has passed,    *)
(* was refused as expired by the pricing engine.                           *)
C12_Witness ==
    /\ resp.op = "pricing"
    /\ resp.request = << <<"b1", "b2">>, "OLDFROM" >>
    /\ resp.status = 400 /\ resp.data = "This coupon has expired"

ValidNow(code) ==
    /\ Coupons[code].isActive
    /\ ~(Coupons[code].validFrom >= 0 /\ now < Coupons[code].validFrom)
    /\ ~(Coupons[code].validTo >= 0 /\ now > Coupons[code].validTo)

(* The books of the request's cart that the call prices: the pricing       *)
(* engine leaves deleted books out, the apply-coupon route does not.       *)
CartBooks(r) ==
    {b \in Range(r.request[1]) : r.op = "applyCoupon" \/ ~books[b].isDeleted}

ScopeAnswer(r, exact) ==
    LET c == Coupons[r.request[2]]
    IN  IF ~\E b \in CartBooks(r) : books[b].author = c.author
        THEN /\ r.status = 400
             /\ r.data = "This coupon is only valid for books by the author"
        ELSE /\ r.status = 200
             /\ {r.rows[i].bookId : i \in DOMAIN r.rows} = CartBooks(r)
             /\ \A i \in DOMAIN r.rows :
                  LET row == r.rows[i]
                      price == books[row.bookId].price
                  IN  IF books[row.bookId].author = c.author
                      THEN /\ row.isDiscounted
                           /\ IF exact
                              THEN 100 * row.discountedPrice = price * (100 - c.pct)
                              ELSE Abs(100 * row.discountedPrice - price * (100 - c.pct)) <= 50
                      ELSE /\ ~row.isDiscounted
                           /\ row.discountedPrice = price
                           /\ row.originalPrice = price
                           /\ row.discountAmount = 0

(* C13 as stated: with a valid author-scoped coupon, pricing fails with    *)
(* the scope-mismatch error when no book of the cart is by the coupon's    *)
(* author; otherwise each book of that author gets discountedPrice =       *)
(* price * (1 - pct/100) exactly and isDiscounted, and every other book    *)
(* keeps its price with discountAmount 0 and isDiscounted false.           *)
C13_AuthorScopeExact ==
    [][ (PricingCall /\ PricedWithCoupon(resp') /\ ValidNow(resp'.request[2])
           /\ Coupons[resp'.request[2]].scope = "author") =>
          ScopeAnswer(resp', TRUE) ]_vars

(* C13: the same, with discountedPrice = price * (1 - pct/100) rounded to  *)
(* 2 decimals.                                                             *)
C13_AuthorScopeRounded ==
    [][ (PricingCall /\ PricedWithCoupon(resp') /\ ValidNow(resp'.request[2])
           /\ Coupons[resp'.request[2]].scope = "author") =>
          ScopeAnswer(resp', FALSE) ]_vars

(* A mixed cart priced with author a1's 10% coupon: a1's book at 0.94 is   *)
(* discounted to 0.85, a2's book is not discounted.                        *)
C13_Witness ==
    /\ resp.op = "pricing" /\ resp.status = 200
    /\ resp.request = << <<"b1", "b2">>, "A1TEN" >>
    /\ resp.rows[1].bookId = "b1" /\ resp.rows[1].discountedPrice = 85
    /\ resp.rows[1].isDiscounted
    /\ resp.rows[2].bookId = "b2" /\ ~resp.rows[2].isDiscounted

RowSum(rows, field) == SumSeq([i \in DOMAIN rows |-> rows[i][field]])

(* A successful pricing answer with a valid scope=all coupon *)
PricedWithAllCoupon(r) ==
    /\ PricedWithCoupon(r)
    /\ ValidNow(r.request[2])
    /\ Coupons[r.request[2]].scope = "all"
    /\ Coupons[r.request[2]].pct \in 1..100
    /\ r.status = 200

Occurrences(seq, x) == Cardinality({i \in DOMAIN seq : seq[i] = x})

HasDuplicate(seq) == \E i, j \in DOMAIN seq : i # j /\ seq[i] = seq[j]

(* A successful answer of the pricing engine for a cart that lists some    *)
(* book id twice                                                           *)
PricedDuplicate(r) ==
    /\ r.op = "pricing"
    /\ r.status = 200
    /\ HasDuplicate(r.request[1])

LiveIds(cart) == SelectSeq(cart, LAMBDA b : ~books[b].isDeleted)

(* C15 as stated: a book id listed twice is priced twice: originalTotal    *)
(* counts its price twice and the per-book breakdown has two entries.      *)
C15_DuplicatePricedTwice ==
    [][ (PricingCall /\ PricedDuplicate(resp')) =>
          /\ resp'.originalTotal = PriceSum(LiveIds(resp'.request[1]))
          /\ \A b \in Range(LiveIds(resp'.request[1])) :
                Cardinality({i \in DOMAIN resp'.rows : resp'.rows[i].bookId = b})
                   = Occurrences(resp'.request[1], b) ]_vars

(* C15: a book id listed twice is fetched and priced once: originalTotal   *)
(* counts its price once and the per-book breakdown has one entry for it.  *)
C15_DuplicatePricedOnce ==
    [][ (PricingCall /\ PricedDuplicate(resp')) =>
          /\ \A b \in Range(LiveIds(resp'.request[1])) :
                Cardinality({i \in DOMAIN resp'.rows : resp'.rows[i].bookId = b}) = 1
          /\ Len(resp'.rows) = Cardinality(Range(LiveIds(resp'.request[1])))
          /\ resp'.originalTotal = RowSum(resp'.rows, "originalPrice")
          /\ \A i \in DOMAIN resp'.rows :
                resp'.rows[i].originalPrice = books[resp'.rows[i].bookId].price ]_vars

(* The cart [b1, b1] priced without coupon: one entry, b1's price once *)
C15_Witness ==
    /\ resp.op = "pricing" /\ resp.status = 200
    /\ resp.request = << <<"b1", "b1">>, NoCoupon >>
    /\ Len(resp.rows) = 1
    /\ resp.originalTotal = books["b1"].price
    /\ books["b1"].price > 0

-----------------------------------------------------------------------------
(* The fee figures for every platform fee percentage *)

InitFees == Init /\ sendDirect

NextFees ==
    \/ OrderPostSecure("u1", <<"b2", "b1">>, "p1", NoCoupon, FALSE)
    \/ OrderPostSecure("u2", <<"b1">>, "p2", "HALF", FALSE)
    \/ \E i \in 1..MaxReqs : OrderSales(i)
    \/ Tick
    \/ \E p \in FeePeriods : GetFees(p)
    \/ CycleFees

SpecFees == InitFees /\ [][NextFees]_vars

(* The author's qualifying rows of a window: completed orders past the     *)
(* trial end, created in [from, to), with a positive net for the author    *)
QualifyingNets(a, from, to) ==
    [i \in DOMAIN orders |->
        IF /\ orders[i].paymentStatus = "completed"
           /\ orders[i].createdAt >= Max(from, users[a].createdAt + TrialDays)
           /\ orders[i].createdAt < to
           /\ OrderNet(orders[i], a) > 0
        THEN OrderNet(orders[i], a) ELSE 0]

QualifyingCount(a, from, to) ==
    Cardinality({i \in DOMAIN orders : QualifyingNets(a, from, to)[i] > 0})

(* C16: the fee due of a row is the sum over the author's qualifying rows  *)
(* of net * feePct / (100 - feePct) and grossSales the sum of net + fee,   *)
(* to the cent; when feePct is <= 0 or >= 100 the fee is 0.  (Nets are in  *)
(* 1/100 cent; the row is in cents.)                                       *)
C16_FeeFromNet ==
    [][ CatalogRead({"getFees", "cycleFees"}) =>
          \A i \in DOMAIN resp'.rows :
             LET row == resp'.rows[i]
                 net == SumSeq(QualifyingNets(row.author, row.start, row.end))
                 n == QualifyingCount(row.author, row.start, row.end)
             IN  IF feePct <= 0 \/ feePct >= 100
                 THEN /\ row.feeDue = 0
                      /\ Abs(100 * row.grossSales - net) <= 50
                 ELSE /\ Abs(100 * row.feeDue * (100 - feePct) - net * feePct)
                            <= (50 + n) * (100 - feePct)
                      /\ Abs(100 * row.grossSales * (100 - feePct) - net * 100)
                            <= (50 + n) * (100 - feePct) ]_vars

(* Fee percentage 10, one order past the trial paying the author 9.00 net: *)
(* the row reports feeDue 1.00 and grossSales 10.00.                       *)
C16_Witness ==
    /\ feePct = 10
    /\ resp.op = "getFees" /\ resp.status = 200
    /\ Len(orders) = 1
    /\ OrderNet(orders[1], "a1") = 90000
    /\ \E i \in DOMAIN resp.rows :
         /\ resp.rows[i].author = "a1"
         /\ resp.rows[i].feeDue = 100
         /\ resp.rows[i].grossSales = 1000

-----------------------------------------------------------------------------
(* routes/admin.js: POST /admin/payouts/mark-paid *)

(* Order.find({ paymentStatus: 'completed', 'authorEarningsBreakdown.author': *)
(* authorId, 'authorEarningsBreakdown.paidOut': false }): the two array     *)
(* conditions may be met by different entries.  Each order found is kept as *)
(* it was read: its index, the author's amount and whether it was unpaid.   *)
PayoutFound(a) ==
    LET hit == SelectSeq([i \in DOMAIN orders |-> i],
                   LAMBDA i : /\ orders[i].paymentStatus = "completed"
                              /\ HasRow(orders[i], a)
                              /\ \E k \in DOMAIN orders[i].authorEarningsBreakdown :
                                     ~orders[i].authorEarningsBreakdown[k].paidOut)
    IN  [j \in DOMAIN hit |->
            [order |-> hit[j],
             amount |-> OrderNet(orders[hit[j]], a),
             unpaid |-> \E k \in DOMAIN orders[hit[j]].authorEarningsBreakdown :
                            /\ orders[hit[j]].authorEarningsBreakdown[k].author = a
                            /\ ~orders[hit[j]].authorEarningsBreakdown[k].paidOut]]

PayoutRequest(a, amount) ==
    [kind |-> "payout", author |-> a, amount |-> amount, left |-> PayoutFound(a),
     totalMarked |-> 0, markedCount |-> 0]

PayoutMarkAllRows(rows, a) ==
    [k \in DOMAIN rows |-> [rows[k] EXCEPT !.paidOut = TRUE, !.paidOutDate = now]]

(* breakdown.paidOut = true; breakdown.paidOutDate = new Date(), on the    *)
(* entries of the author                                                   *)
PayoutMarkRows(rows, a) ==
    [k \in DOMAIN rows |->
        IF rows[k].author = a
        THEN [rows[k] EXCEPT !.paidOut = TRUE, !.paidOutDate = now]
        ELSE rows[k]]

PayoutBegin(a, amount) ==
    /\ IF PayoutFound(a) = <<>> THEN
           /\ resp' = Response("payoutMarkPaid", 200, "admin", <<0, 0>>)
           /\ UNCHANGED reqs
       ELSE
           /\ Len(reqs) < MaxReqs
           /\ reqs' = Append(reqs, PayoutRequest(a, amount))
           /\ UNCHANGED resp
    /\ UNCHANGED <<feePct, sendDirect, now, users, books, orders, feeStatus, paypal>>

PayoutSaveUncapped(i) ==
    /\ i \in DOMAIN reqs
    /\ reqs[i].kind = "payout"
    /\ LET r == reqs[i]
           h == Head(r.left)
           total == IF h.unpaid THEN r.totalMarked + h.amount ELSE r.totalMarked
           count == IF h.unpaid THEN r.markedCount + 1 ELSE r.markedCount
       IN  /\ orders' = IF h.unpaid
                        THEN [orders EXCEPT ![h.order].authorEarningsBreakdown =
                                  PayoutMarkRows(@, r.author)]
                        ELSE orders
           /\ IF Len(r.left) = 1 THEN
                  /\ reqs' = RemoveAt(reqs, i)
                  /\ resp' = Response("payoutMarkPaid", 200, "admin", <<count, total>>)
              ELSE
                  /\ reqs' = [reqs EXCEPT ![i].left = Tail(r.left),
                                          ![i].totalMarked = total,
                                          ![i].markedCount = count]
                  /\ UNCHANGED resp
    /\ UNCHANGED <<feePct, sendDirect, now, users, books, feeStatus, paypal>>

(* One turn of the loop: the entry is marked when it fits in what is left  *)
(* of the amount, then await order.save(), which writes the marked paths.  *)
PayoutSave(i) ==
    /\ i \in DOMAIN reqs
    /\ reqs[i].kind = "payout"
    /\ LET r == reqs[i]
           h == Head(r.left)
           mark == h.unpaid /\ r.totalMarked + h.amount <= r.amount
           total == IF mark THEN r.totalMarked + h.amount ELSE r.totalMarked
           count == IF mark THEN r.markedCount + 1 ELSE r.markedCount
       IN  /\ orders' = IF mark
                        THEN [orders EXCEPT ![h.order].authorEarningsBreakdown =
                                  PayoutMarkRows(@, r.author)]
                        ELSE orders
           /\ IF Len(r.left) = 1 THEN
                  /\ reqs' = RemoveAt(reqs, i)
                  /\ resp' = Response("payoutMarkPaid", 200, "admin", <<count, total>>)
              ELSE
                  /\ reqs' = [reqs EXCEPT ![i].left = Tail(r.left),
                                          ![i].totalMarked = total,
                                          ![i].markedCount = count]
                  /\ UNCHANGED resp
    /\ UNCHANGED <<feePct, sendDirect, now, users, books, feeStatus, paypal>>

(* The amounts an admin sends: nothing, the net of one book, everything *)
PayoutAmounts == {0, 90000, 200000}

InitPayout == Init /\ feePct = 10

NextPayout ==
    \/ OrderPostSecure("u1", <<"b2", "b1">>, "p1", NoCoupon, FALSE)
    \/ OrderPostLegacy("u2", <<"b1">>, "p3", NoCoupon, 0)
    \/ \E i \in 1..MaxReqs : OrderSales(i)
    \/ \E a \in Authors, amount \in PayoutAmounts : PayoutBegin(a, amount)
    \/ \E i \in 1..MaxReqs : PayoutSave(i)
    \/ AdminDeleteBook("b2")

SpecPayout == InitPayout /\ [][NextPayout]_vars

-----------------------------------------------------------------------------
(* Claims about the payout handler *)

(* The step of request i that saves an order *)
PayoutStepOf(i) ==
    /\ i \in DOMAIN reqs
    /\ reqs[i].kind = "payout"
    /\ \/ reqs' = RemoveAt(reqs, i)
       \/ /\ Len(reqs') = Len(reqs)
          /\ reqs'[i].kind = "payout"
          /\ reqs'[i].left = Tail(reqs[i].left)

(* What is written once: every path of the order but the paidOut flags   *)
(* and their dates                                                        *)
OrderFixed(o) ==
    <<o.customer, o.items, o.totalAmount, o.platformEarnings, o.authorEarnings,
      [k \in DOMAIN o.authorEarningsBreakdown |->
          <<o.authorEarningsBreakdown[k].author, o.authorEarningsBreakdown[k].amount>>],
      o.paymentId, o.paymentStatus>>

(* C17: no step changes the customer, items, totalAmount, platformEarnings, *)
(* authorEarnings, breakdown amounts, paymentId or paymentStatus of an      *)
(* order that exists; the only change to an existing order is a step of a   *)
(* payout mark-paid request turning paidOut from false to true, on entries  *)
(* of the author that request names; paidOutDate is written with the flag   *)
(* and at no other time.                                                    *)
C17_OrderFrozenButPaidOut ==
    [][ /\ Len(orders') >= Len(orders)
        /\ \A i \in DOMAIN orders :
            /\ OrderFixed(orders'[i]) = OrderFixed(orders[i])
            /\ \A k \in DOMAIN orders[i].authorEarningsBreakdown :
                LET old == orders[i].authorEarningsBreakdown[k]
                    new == orders'[i].authorEarningsBreakdown[k]
                IN  /\ old.paidOut => new.paidOut
                    /\ new.paidOutDate # old.paidOutDate => new.paidOut # old.paidOut
                    /\ new.paidOut # old.paidOut =>
                           \E j \in DOMAIN reqs :
                               PayoutStepOf(j) /\ reqs[j].author = old.author ]_vars

C17_Witness ==
    /\ Len(orders) = 1
    /\ Len(orders[1].authorEarningsBreakdown) = 2
    /\ resp.op = "payoutMarkPaid"
    /\ resp.data = <<1, 90000>>
    /\ \E k, m \in DOMAIN orders[1].authorEarningsBreakdown :
           /\ orders[1].authorEarningsBreakdown[k].author = "a1"
           /\ orders[1].authorEarningsBreakdown[k].paidOut
           /\ ~orders[1].authorEarningsBreakdown[m].paidOut

-----------------------------------------------------------------------------
(* routes/orders.js: GET /orders/:id *)

(* req.user.role of the authenticated requester *)
RoleOf(who) ==
    IF who = "admin" THEN "admin" ELSE IF who \in Authors THEN "author" ELSE "customer"

AccessForAll(who, o) == TRUE

(* The negation of the 403 condition *)
OrderAccess(who, o) == RoleOf(who) = "admin" \/ o.customer = who

(* The status answered to requester who for the order with id *)
GetOrderStatus(who, id) ==
    IF id \notin DOMAIN orders THEN 404
    ELSE IF ~OrderAccess(who, orders[id]) THEN 403
    ELSE 200

(* The response: the id asked for, and the order in the body when 200 *)
OrderResponse(op, who, id) ==
    [op |-> op, status |-> GetOrderStatus(who, id), who |-> who, data |-> id,
     rows |-> IF GetOrderStatus(who, id) = 200 THEN <<orders[id]>> ELSE <<>>]

GetOrderLegacy(who, id) ==
    /\ resp' = OrderResponse("getOrderLegacy", who, id)
    /\ UNCHANGED <<feePct, sendDirect, now, users, books, orders, feeStatus, paypal, reqs>>

GetOrder(who, id) ==
    /\ resp' = OrderResponse("getOrder", who, id)
    /\ UNCHANGED <<feePct, sendDirect, now, users, books, orders, feeStatus, paypal, reqs>>

(* Whoever holds a token: the customers, an author, the admin *)
Requesters == Customers \cup {"a1", "admin"}

NextOrderRead ==
    \/ OrderPostSecure("u1", <<"b2", "b1">>, "p1", NoCoupon, FALSE)
    \/ OrderPostSecure("u2", <<"b1">>, "p2", "HALF", FALSE)
    \/ \E i \in 1..MaxReqs : OrderSales(i)
    \/ \E who \in Requesters, id \in 1..MaxOrders : GetOrderLegacy(who, id)
    \/ \E who \in Requesters, id \in 1..MaxOrders : GetOrder(who, id)

SpecOrderRead == InitOrders /\ [][NextOrderRead]_vars

-----------------------------------------------------------------------------
(* Claims about GET /orders/:id *)

OrderReadOps == {"getOrder", "getOrderLegacy"}

(* A step that answers a GET /orders/:id *)
OrderReadCall ==
    /\ resp'.op \in OrderReadOps
    /\ UNCHANGED <<feePct, sendDirect, now, users, books, orders, feeStatus, paypal, reqs>>

(* C18: GET /orders/:id answers with the order only to the order's         *)
(* customer and to an admin; any other authenticated requester of an       *)
(* existing order gets 403 and no order data.                              *)
C18_OrderOnlyToOwnerOrAdmin ==
    [][ OrderReadCall =>
          /\ resp'.rows # <<>> =>
                /\ resp'.data \in DOMAIN orders
                /\ resp'.rows = <<orders[resp'.data]>>
                /\ \/ orders[resp'.data].customer = resp'.who
                   \/ RoleOf(resp'.who) = "admin"
          /\ ( /\ resp'.data \in DOMAIN orders
               /\ orders[resp'.data].customer # resp'.who
               /\ RoleOf(resp'.who) # "admin" )
                => resp'.status = 403 /\ resp'.rows = <<>> ]_vars

C18_Witness ==
    /\ resp.op \in OrderReadOps
    /\ resp.status = 403
    /\ resp.who = "u2"
    /\ resp.data \in DOMAIN orders
    /\ orders[resp.data].customer = "u1"

-----------------------------------------------------------------------------
(* Claims about mark-paid and the author's block *)

(* A step of mark request i: its upsert, or what follows it *)
MarkStepOf(i) ==
    /\ i \in DOMAIN reqs
    /\ reqs[i].kind = "mark"
    /\ \/ reqs' = RemoveAt(reqs, i)
       \/ /\ reqs[i].step = "upsert"
          /\ reqs' = [reqs EXCEPT ![i].step = "unblock"]

(* C19: no step of a request that marks an author's platform fee as paid   *)
(* changes the isBlocked, blockedReason or blockedAt of an author: a       *)
(* blocked author stays blocked through mark-paid.                         *)
C19_MarkPaidKeepsBlock ==
    [][ (\E i \in DOMAIN reqs : MarkStepOf(i) /\ SetsPaid(reqs[i].op)) =>
            \A a \in Authors :
                /\ users'[a].isBlocked = users[a].isBlocked
                /\ users'[a].blockedReason = users[a].blockedReason
                /\ users'[a].blockedAt = users[a].blockedAt ]_vars

-----------------------------------------------------------------------------
(* routes/orders.js: GET /orders/my-orders *)

PopulateLive(b) == b \in BookIds /\ ~books[b].isDeleted

(* populate('items.book', ...) finds the book document with the id *)
Populate(b) == b \in BookIds

(* order.items.filter(item => item.book) *)
CleanedItems(o) == SelectSeq(o.items, LAMBDA item : Populate(item.book))

(* Order.find({ customer }).sort({ createdAt: -1 }), each order with its   *)
(* cleaned items; the ledger is in creation order.                         *)
MyOrdersRows(who) ==
    LET mine == Reverse(SelectSeq(orders, LAMBDA o : o.customer = who))
    IN  [i \in DOMAIN mine |-> [mine[i] EXCEPT !.items = CleanedItems(mine[i])]]

MyOrdersResponse(op, who) ==
    IF RoleOf(who) # "customer" THEN Response(op, 403, who, "")
    ELSE RowsResponse(op, who, MyOrdersRows(who))

GetMyOrdersLegacy(who) ==
    /\ resp' = MyOrdersResponse("myOrdersLegacy", who)
    /\ UNCHANGED <<feePct, sendDirect, now, users, books, orders, feeStatus, paypal, reqs>>

GetMyOrders(who) ==
    /\ resp' = MyOrdersResponse("myOrders", who)
    /\ UNCHANGED <<feePct, sendDirect, now, users, books, orders, feeStatus, paypal, reqs>>

(* A purchase followed by deletions, blocks and gate runs, with the        *)
(* buyer's library and PDF requests in between                             *)
NextLibrary ==
    \/ OrderPostSecure("u1", <<"b2", "b1">>, "p1", NoCoupon, FALSE)
    \/ \E i \in 1..MaxReqs : OrderSales(i)
    \/ \E b \in {"b1", "b2"} : AdminDeleteBook(b)
    \/ AdminBlock("a1")
    \/ AdminUnblock("a1")
    \/ \E e \in {"", "Pay@X.io"} : PayoutPost("a1", e)
    \/ \E i \in 1..MaxReqs : GateSync(i)
    \/ \E who \in {"u1", "u2", "a1"} : GetMyOrdersLegacy(who)
    \/ \E who \in {"u1", "u2", "a1"} : GetMyOrders(who)
    \/ \E rq \in {<<"u1", "b1">>, <<"u1", "b2">>, <<"u2", "b1">>} :
            GetPdfSecure(rq[1], rq[2])

SpecLibrary == InitOrders /\ [][NextLibrary]_vars

-----------------------------------------------------------------------------
(* Claims about the buyer's library *)

(* The order list of who has a line for book b *)
InMyOrders(who, b) ==
    \E i \in DOMAIN MyOrdersRows(who) :
        \E k \in DOMAIN MyOrdersRows(who)[i].items :
            MyOrdersRows(who)[i].items[k].book = b

(* C20: whatever deletions of books, blocks and unblocks of authors and    *)
(* gate status changes have happened since, a customer with a completed    *)
(* order holding a book finds that line in the order list and passes the   *)
(* PDF access check for the book.                                          *)
C20_AccessKept ==
    \A c \in Customers : \A b \in BookIds :
        HasCompletedOrder(c, b) =>
            /\ InMyOrders(c, b)
            /\ MyOrdersResponse("myOrders", c).status = 200
            /\ PdfStatusSecure(c, b) = 200

C20_Witness ==
    /\ HasCompletedOrder("u1", "b1")
    /\ HasCompletedOrder("u1", "b2")
    /\ books["b2"].isDeleted
    /\ books["b1"].status = "pending"
    /\ users["a1"].isBlocked
    /\ resp.op = "myOrders"
    /\ resp.who = "u1"
    /\ Len(resp.rows) = 1
    /\ Len(resp.rows[1].items) = 2

-----------------------------------------------------------------------------
(* Claims about the sales counter *)

(* The step of request i that saves the next book it fetched *)
SalesStepOf(i) ==
    /\ i \in DOMAIN reqs
    /\ reqs[i].kind = "sales"
    /\ \/ reqs' = RemoveAt(reqs, i)
       \/ reqs' = [reqs EXCEPT ![i].left = Tail(reqs[i].left)]

OrdersWith(b) ==
    {i \in DOMAIN orders : \E k \in DOMAIN orders[i].items : orders[i].items[k].book = b}

(* C21: each order creation saves, for a book, the salesCount it read when *)
(* it fetched the book plus 1, whatever the stored counter has become, so  *)
(* two creations that both read before either saves leave the counter 1    *)
(* higher with two orders persisted; the counter never exceeds the number  *)
(* of persisted orders holding the book.                                   *)
C21_SalesCounterSavedFromRead ==
    [][ /\ \A i \in DOMAIN reqs :
              SalesStepOf(i) =>
                  books'[Head(reqs[i].left).book].salesCount
                      = Head(reqs[i].left).salesCount + 1
        /\ \A b \in BookIds :
              books'[b].salesCount <= Cardinality(OrdersWith(b)') ]_vars

C21_Witness ==
    /\ reqs = <<>>
    /\ Cardinality(OrdersWith("b1")) = 2
    /\ books["b1"].salesCount = 1

-----------------------------------------------------------------------------
(* The anniversary cycles, day by day, for authors who joined on different *)
(* days of the month                                                       *)

MaxCycleDay == 80

(* createdAt of a1: 15, 28 and 31 December 2025, 1 January 2026 *)
CycleJoinDays == {0 - 17, 0 - 4, 0 - 1, 0}

InitCycle ==
    /\ feePct = 10
    /\ sendDirect = TRUE
    /\ now = StartDay
    /\ \E j \in CycleJoinDays :
          users = [a \in Authors |->
                      [payoutPaypalEmail |-> "", isBlocked |-> FALSE,
                       blockedReason |-> "", blockedAt |-> -1,
                       createdAt |-> IF a = "a1" THEN j ELSE JoinDay(a)]]
    /\ books = [b \in BookIds |->
                    [author |-> BookAuthor(b), price |-> BookPrice(b),
                     isDeleted |-> FALSE, status |-> "approved", salesCount |-> 0]]
    /\ orders = <<>>
    /\ feeStatus = <<>>
    /\ paypal = PayPalOrders
    /\ reqs = <<>>
    /\ resp = Response("none", 0, "", "")

(* new Date() one day later *)
NextDay ==
    /\ now < MaxCycleDay
    /\ now' = now + 1
    /\ UNCHANGED <<feePct, sendDirect, users, books, orders, feeStatus, paypal, reqs, resp>>

NextCycle ==
    \/ NextDay
    \/ CycleFees
    \/ \E op \in CycleOps : MarkBegin(op, "a1", <<>>)
    \/ \E i \in 1..MaxReqs : MarkUpsert(i)

SpecCycle == InitCycle /\ [][NextCycle]_vars

-----------------------------------------------------------------------------
(* Claims about the anniversary cycles *)

(* The default period key of author a as of now *)
DefaultCycleKey(a) == MakeCycleKey(LastCycle(a).start, LastCycle(a).end)

(* Day billingDay of a month opens a cycle of an author *)
OpensCycle(a, t) == GetDate(t) = Min(MaxBillingDay, GetDate(users[a].createdAt))

(* The day the cycle of author a that holds day t opened: the latest day   *)
(* up to t that is the billing day of its month                            *)
CycleOpen(a, t) ==
    CHOOSE d \in (t - 31)..t :
        OpensCycle(a, d) /\ \A e \in (d + 1)..t : ~OpensCycle(a, e)

(* C22: the billing day is min(28, day of month of the join date), and the *)
(* default period key of cycle-fees and of the cycle marks is, on every    *)
(* day of a billing cycle, the pair of the day the preceding cycle opened  *)
(* and the day this cycle opened: one key per cycle, and a different one   *)
(* for each cycle.                                                          *)
C22_CycleKeyPerCycle ==
    /\ [](\A a \in Authors :
            /\ GetBillingWindow(users[a].createdAt).billingDay
                   = Min(MaxBillingDay, GetDate(users[a].createdAt))
            /\ LET opened == CycleOpen(a, now)
               IN  DefaultCycleKey(a) = MakeCycleKey(CycleOpen(a, opened - 1), opened))
    /\ [][ /\ CatalogRead({"cycleFees"}) =>
                  \A k \in DOMAIN resp'.rows :
                      MakeCycleKey(resp'.rows[k].start, resp'.rows[k].end)
                          = DefaultCycleKey(resp'.rows[k].author)
            /\ \A i \in DOMAIN reqs :
                  (UpsertStepOf(i) /\ reqs[i].period = <<>>) =>
                      \E d \in DOMAIN feeStatus' :
                          /\ feeStatus'[d].author = reqs[i].who
                          /\ feeStatus'[d].period = DefaultCycleKey(reqs[i].who)
                          /\ feeStatus'[d].isPaid = SetsPaid(reqs[i].op) ]_vars

(* a1 joined on the 31st: records of two cycles, keyed from the 28th *)
C22_Witness ==
    /\ GetDate(users["a1"].createdAt) = 31
    /\ Len(feeStatus) = 2
    /\ feeStatus[1].period = <<MkDate(2025, 11, 28), MkDate(2026, 0, 28)>>
    /\ feeStatus[2].period = <<MkDate(2026, 0, 28), MkDate(2026, 1, 28)>>

-----------------------------------------------------------------------------
(* Claims about the coupon preview *)

(* C23: for a cart and a coupon, in the catalog as it is, the newTotal the *)
(* coupon preview answers with is the total calculateCartPricing computes  *)
(* for the same cart and coupon, also when a book of the cart has been     *)
(* soft-deleted.                                                           *)
C23_PreviewEqualsPricing ==
    [][ (PricingCall /\ resp'.op = "applyCoupon" /\ resp'.status = 200) =>
            LET pricing == CalculateCartPricing(resp'.request[1], resp'.request[2])
            IN  pricing.ok /\ pricing.total = resp'.total ]_vars

-----------------------------------------------------------------------------
(* routes/books.js: POST /books and PUT /books/:id, in both copies *)

(* The ids given to the books created *)
NewBookIds == <<"b4", "b5">>

NextBookId == CHOOSE k \in DOMAIN NewBookIds :
                  /\ NewBookIds[k] \notin DOMAIN books
                  /\ \A j \in 1..(k - 1) : NewBookIds[j] \in DOMAIN books

(* new Book({ ..., price, author, status }); await book.save() *)
SaveNewBook(a, price, status) ==
    [b \in DOMAIN books \cup {NewBookIds[NextBookId]} |->
        IF b \in DOMAIN books THEN books[b]
        ELSE [author |-> a, price |-> price, isDeleted |-> FALSE, status |-> status,
              salesCount |-> 0]]

(* The older copy: the book goes live at once *)
CreateBookLegacy(a, price, files) ==
    /\ IF ~files THEN
           /\ resp' = Response("postBookLegacy", 400, a, "")
           /\ UNCHANGED books
       ELSE
           /\ \E k \in DOMAIN NewBookIds : NewBookIds[k] \notin DOMAIN books
           /\ books' = SaveNewBook(a, price, "approved")
           /\ resp' = Response("postBookLegacy", 201, a, NewBookIds[NextBookId])
    /\ UNCHANGED <<feePct, sendDirect, now, users, orders, feeStatus, paypal, reqs>>

CreateBook(a, price, files) ==
    /\ IF users[a].isBlocked THEN
           /\ resp' = Response("postBook", 403, a, "")
           /\ UNCHANGED books
       ELSE IF ~files THEN
           /\ resp' = Response("postBook", 400, a, "")
           /\ UNCHANGED books
       ELSE
           /\ \E k \in DOMAIN NewBookIds : NewBookIds[k] \notin DOMAIN books
           /\ books' = SaveNewBook(a, price,
                          IF users[a].payoutPaypalEmail # "" THEN "approved" ELSE "pending")
           /\ resp' = Response("postBook", 201, a, NewBookIds[NextBookId])
    /\ UNCHANGED <<feePct, sendDirect, now, users, orders, feeStatus, paypal, reqs>>

(* The older copy of PUT /books/:id *)
AuthorSetPriceLegacy(a, b, price) ==
    /\ IF b \notin DOMAIN books THEN
           /\ resp' = Response("putBookLegacy", 404, a, b)
           /\ UNCHANGED books
       ELSE IF books[b].author # a THEN
           /\ resp' = Response("putBookLegacy", 403, a, b)
           /\ UNCHANGED books
       ELSE
           /\ books' = [books EXCEPT ![b].price = price]
           /\ resp' = Response("putBookLegacy", 200, a, b)
    /\ UNCHANGED <<feePct, sendDirect, now, users, orders, feeStatus, paypal, reqs>>

NextPublish ==
    \/ AdminBlock("a1")
    \/ AdminUnblock("a1")
    \/ \E a \in Authors, files \in BOOLEAN : CreateBookLegacy(a, 700, files)
    \/ \E a \in Authors, files \in BOOLEAN : CreateBook(a, 700, files)
    \/ \E c \in PriceChanges : AuthorSetPriceLegacy(c[1], c[2], c[3])
    \/ \E c \in PriceChanges : AuthorSetPrice(c[1], c[2], c[3])

SpecPublish == InitOrders /\ [][NextPublish]_vars

-----------------------------------------------------------------------------
(* Claims about publishing while blocked *)

PublishOps == {"postBook", "postBookLegacy", "putBook", "putBookLegacy"}

(* A step that answers a request to create or edit a book *)
PublishCall ==
    /\ resp'.op \in PublishOps
    /\ UNCHANGED <<feePct, sendDirect, now, users, orders, feeStatus, paypal, reqs>>

(* C24: a request to create or to edit a book made by an author whose      *)
(* isBlocked is true is answered 403 and leaves the books as they were.    *)
C24_BlockedAuthorCannotPublish ==
    [][ (PublishCall /\ resp'.who \in Authors /\ users[resp'.who].isBlocked) =>
            resp'.status = 403 /\ books' = books ]_vars

-----------------------------------------------------------------------------
(* Claims about payment identifiers *)

(* C25: no two persisted orders have the same paymentId. *)
C25_PaymentIdBacksOneOrder ==
    \A i, j \in DOMAIN orders : i # j => orders[i].paymentId # orders[j].paymentId

-----------------------------------------------------------------------------
(* Claims about concurrent gate syncs *)

(* The live books of author a agree with the stored payout address *)
GateAgrees(a) ==
    \A b \in BookIds :
        (books[b].author = a /\ ~books[b].isDeleted) =>
            IF users[a].payoutPaypalEmail = ""
            THEN books[b].status # "approved"
            ELSE books[b].status # "pending"

(* C26: when the gate sync that ends the last pending request of an author *)
(* has run, whatever the interleaving of the payout-settings update with   *)
(* the syncs of GET /payout-settings and GET /dashboard, the author's      *)
(* non-deleted books agree with the stored payoutPaypalEmail.              *)
C26_GateConvergesWithEmail ==
    [][ \A i \in DOMAIN reqs : \A a \in Authors :
            (GateStepOf(i) /\ reqs[i].who = a /\ reqs' = <<>>) => GateAgrees(a)' ]_vars

-----------------------------------------------------------------------------
(* routes/paypal.js: POST /paypal/create-order and /paypal/capture-order.  *)
(* A PayPal order made here is kept with its purchase units, and with the  *)
(* cart, coupon and pricing it was made for; value is the amount of its    *)
(* first purchase unit, the one POST /orders reads.                        *)

(* The ids PayPal gives to the orders created *)
NewPayIds == <<"c1">>

NextPayId == CHOOSE k \in DOMAIN NewPayIds :
                 /\ NewPayIds[k] \notin DOMAIN paypal
                 /\ \A j \in 1..(k - 1) : NewPayIds[j] \in DOMAIN paypal

(* authorAmounts: the discounted prices added up by author, in the order   *)
(* the authors appear in pricing.books                                     *)
RECURSIVE AuthorAmounts(_)
AuthorAmounts(items) ==
    IF items = <<>> THEN <<>>
    ELSE LET it == items[Len(items)]
         IN  AddEarning(AuthorAmounts(SubSeq(items, 1, Len(items) - 1)),
                        books[it.bookId].author, it.discountedPrice)

(* One purchase unit per author; the last one takes what is left of the    *)
(* total                                                                   *)
AuthorUnits(pricing) ==
    LET amounts == AuthorAmounts(pricing.discountedItems)
    IN  [i \in DOMAIN amounts |->
            IF i = Len(amounts)
            THEN pricing.total - SumSeq([j \in 1..(i - 1) |-> amounts[j].amount])
            ELSE amounts[i].amount]

PayPalCreated(units, cart, code, pricing) ==
    [status |-> "CREATED", currency |-> "USD", value |-> units[1], units |-> units,
     cart |-> cart, code |-> code, pricing |-> pricing]

AddPayPalOrder(doc) ==
    [p \in DOMAIN paypal \cup {NewPayIds[NextPayId]} |->
        IF p \in DOMAIN paypal THEN paypal[p] ELSE doc]

(* The status of the error response of create-order, 0 if none; direct:    *)
(* the copy that can pay the authors directly                              *)
CreateError(cart, code, direct) ==
    LET pricing == CalculateCartPricing(cart, code)
    IN  IF cart = <<>> THEN 400
        ELSE IF ~pricing.ok THEN pricing.status
        ELSE IF direct /\ pricing.books = <<>> THEN 400
        ELSE IF pricing.total <= 0 THEN 400
        ELSE IF /\ direct /\ sendDirect
                /\ \E i \in DOMAIN pricing.books :
                       users[books[pricing.books[i]].author].payoutPaypalEmail = "" THEN 400
        ELSE 0

PayPalCreateLegacy(cust, cart, code) ==
    LET pricing == CalculateCartPricing(cart, code)
    IN  /\ IF CreateError(cart, code, FALSE) # 0 THEN
               /\ resp' = Response("paypalCreateLegacy", CreateError(cart, code, FALSE), cust, "")
               /\ UNCHANGED paypal
           ELSE
               /\ \E k \in DOMAIN NewPayIds : NewPayIds[k] \notin DOMAIN paypal
               /\ paypal' = AddPayPalOrder(
                                PayPalCreated(<<pricing.total>>, cart, code, pricing))
               /\ resp' = Response("paypalCreateLegacy", 200, cust, NewPayIds[NextPayId])
        /\ UNCHANGED <<feePct, sendDirect, now, users, books, orders, feeStatus, reqs>>

PayPalCreate(cust, cart, code) ==
    LET pricing == CalculateCartPricing(cart, code)
    IN  /\ IF CreateError(cart, code, TRUE) # 0 THEN
               /\ resp' = Response("paypalCreate", CreateError(cart, code, TRUE), cust, "")
               /\ UNCHANGED paypal
           ELSE
               /\ \E k \in DOMAIN NewPayIds : NewPayIds[k] \notin DOMAIN paypal
               /\ paypal' = AddPayPalOrder(
                                PayPalCreated(IF sendDirect THEN AuthorUnits(pricing)
                                              ELSE <<pricing.total>>,
                                              cart, code, pricing))
               /\ resp' = Response("paypalCreate", 200, cust, NewPayIds[NextPayId])
        /\ UNCHANGED <<feePct, sendDirect, now, users, books, orders, feeStatus, reqs>>

(* The customer has approved the payment and the capture completes *)
PayPalCapture(cust, id) ==
    /\ id \in DOMAIN paypal
    /\ paypal[id].status = "CREATED"
    /\ paypal' = [paypal EXCEPT ![id].status = "COMPLETED"]
    /\ resp' = Response("paypalCapture", 200, cust, id)
    /\ UNCHANGED <<feePct, sendDirect, now, users, books, orders, feeStatus, reqs>>

CheckoutCarts == {<<<<"b1">>, NoCoupon>>, <<<<"b2", "b1">>, NoCoupon>>,
                  <<<<"b2", "b1">>, "HALF">>}

InitCheckout == Init /\ feePct = 10

NextCheckout ==
    \/ \E a \in Authors : PayoutPost(a, "Pay@X.io")
    \/ \E i \in 1..MaxReqs : GateSync(i)
    \/ \E c \in CheckoutCarts : PayPalCreateLegacy("u1", c[1], c[2])
    \/ \E c \in CheckoutCarts : PayPalCreate("u1", c[1], c[2])
    \/ \E k \in DOMAIN NewPayIds : PayPalCapture("u1", NewPayIds[k])
    \/ \E c \in CheckoutCarts, k \in DOMAIN NewPayIds :
            OrderPostSecure("u1", c[1], NewPayIds[k], c[2], FALSE)
    \/ \E i \in 1..MaxReqs : OrderSales(i)
    \/ AuthorSetPrice("a1", "b1", 94)

SpecCheckout == InitCheckout /\ [][NextCheckout]_vars

-----------------------------------------------------------------------------
(* Claims about the checkout *)

(* C27: a PayPal order made by create-order for a cart and coupon, whose   *)
(* capture has completed, passes the checks of POST /orders for the same   *)
(* cart and coupon as long as the pricing of the cart is what it was, for  *)
(* carts of one author and of several, in both payment-routing modes.      *)
C27_CapturedOrderVerifies ==
    \A p \in DOMAIN paypal \ DOMAIN PayPalOrders :
        ( /\ paypal[p].status = "COMPLETED"
          /\ CalculateCartPricing(paypal[p].cart, paypal[p].code) = paypal[p].pricing )
            => SecureError(paypal[p].cart, p, paypal[p].code, FALSE) = 0

-----------------------------------------------------------------------------
(* Claims about consecutive cycles *)

(* The cycles computed for author a so far: those that key the records     *)
(* written on earlier days, those of the rows last answered, and the last  *)
(* completed cycle as of now                                               *)
CyclesSeen(a) ==
    {feeStatus[d].period : d \in {e \in DOMAIN feeStatus : feeStatus[e].author = a}}
    \cup {MakeCycleKey(LastCycle(a).start, LastCycle(a).end)}
    \cup (IF resp.op = "cycleFees"
          THEN {MakeCycleKey(resp.rows[k].start, resp.rows[k].end) :
                    k \in {j \in DOMAIN resp.rows : resp.rows[j].author = a}}
          ELSE {})

(* Day t is in the billable window [effectiveStart, end) of cycle w *)
InWindow(a, w, t) == Max(w[1], users[a].createdAt + TrialDays) <= t /\ t < w[2]

(* C28: the cycles computed on different days partition time: each has     *)
(* start < end, the cycle computed in the cycle after another starts where *)
(* that one ends (their ends are at most a month apart), and two different *)
(* cycles do not overlap, so a day at or after the trial end is in the     *)
(* billable window of at most one cycle, and of exactly one once its cycle *)
(* is complete.                                                            *)
C28_CyclesPartitionTime ==
    \A a \in Authors :
        LET seen == CyclesSeen(a)
            last == LastCycle(a)
        IN  /\ \A w \in seen : w[1] < w[2]
            /\ \A w1, w2 \in seen :
                  /\ w1 = w2 \/ w1[2] <= w2[1] \/ w2[2] <= w1[1]
                  /\ (w1[2] < w2[2] /\ w2[2] - w1[2] <= 31) => w2[1] = w1[2]
            /\ \A t \in Max(last.start, users[a].createdAt + TrialDays)..(last.end - 1) :
                  Cardinality({w \in seen : InWindow(a, w, t)}) = 1

(* a1 joined on the 15th: records of two cycles, one ending where the      *)
(* other starts, the second with billable days                             *)
C28_Witness ==
    /\ GetDate(users["a1"].createdAt) = 15
    /\ Len(feeStatus) = 2
    /\ feeStatus[1].author = "a1" /\ feeStatus[2].author = "a1"
    /\ feeStatus[1].period[2] = feeStatus[2].period[1]
    /\ InWindow("a1", feeStatus[2].period, feeStatus[2].period[2] - 1)

-----------------------------------------------------------------------------
(* Claims about the gross-up *)

(* The fees grossed up from the rows of an order, in 1/100 cent *)
GrossedUpFee(o) ==
    SumSeq([i \in DOMAIN o.authorEarningsBreakdown |->
                CalcFeeFromNet(o.authorEarningsBreakdown[i].amount, feePct)])

(* What the divisions of the split and of the gross-up can lose: one unit  *)
(* of 1/100 cent per line and per row, twice                               *)
SplitSlack(o) == 2 * (Len(o.items) + Len(o.authorEarningsBreakdown))

-----------------------------------------------------------------------------
(* Claims about what one payout request marks *)

(* The amounts of the entries whose paidOut the step turns to true *)
MarkedByStep ==
    SumSeq([o \in DOMAIN orders |->
        SumSeq([k \in DOMAIN orders[o].authorEarningsBreakdown |->
            IF /\ ~orders[o].authorEarningsBreakdown[k].paidOut
               /\ orders'[o].authorEarningsBreakdown[k].paidOut
            THEN orders[o].authorEarningsBreakdown[k].amount
            ELSE 0])])

(* totalMarked of request i after its step: in the request while the loop *)
(* runs, in the response once it has ended                                 *)
TotalAfterStep(i) ==
    IF Len(reqs') < Len(reqs) THEN resp'.data[2] ELSE reqs'[i].totalMarked

(* C30: a payout mark-paid request never marks more than its amount: every *)
(* step adds what it turns to paidOut to the request's totalMarked, which   *)
(* stays at most the amount; a paidOut flag changes only in a step of such  *)
(* a request, on an entry of the author it names, in the order that step    *)
(* saves, which the request had read as unpaid; entries of other authors    *)
(* keep their paidOut value.                                                *)
C30_PayoutWithinAmount ==
    [][ /\ \A i \in DOMAIN reqs :
            PayoutStepOf(i) =>
                /\ TotalAfterStep(i) >= reqs[i].totalMarked + MarkedByStep
                /\ TotalAfterStep(i) <= reqs[i].amount
        /\ \A o \in DOMAIN orders :
            \A k \in DOMAIN orders[o].authorEarningsBreakdown :
                orders'[o].authorEarningsBreakdown[k].paidOut
                        # orders[o].authorEarningsBreakdown[k].paidOut =>
                    \E i \in DOMAIN reqs :
                        /\ PayoutStepOf(i)
                        /\ orders[o].authorEarningsBreakdown[k].author = reqs[i].author
                        /\ ~orders[o].authorEarningsBreakdown[k].paidOut
                        /\ Head(reqs[i].left).order = o
                        /\ Head(reqs[i].left).unpaid ]_vars

(* Two orders each owe a1 900.00 net and the first also owes a2; a payout *)
(* of 900.00 to a1 marked one of a1's entries and left the other, and a2's *)
(* entry, unpaid.                                                          *)
C30_Witness ==
    /\ Len(orders) = 2
    /\ reqs = <<>>
    /\ resp.op = "payoutMarkPaid"
    /\ resp.data = <<1, 90000>>
    /\ \A o \in DOMAIN orders : OrderNet(orders[o], "a1") = 90000
    /\ \E o, p \in DOMAIN orders :
           /\ \E k \in DOMAIN orders[o].authorEarningsBreakdown :
                  /\ orders[o].authorEarningsBreakdown[k].author = "a1"
                  /\ orders[o].authorEarningsBreakdown[k].paidOut
           /\ \A k \in DOMAIN orders[p].authorEarningsBreakdown :
                  ~orders[p].authorEarningsBreakdown[k].paidOut
    /\ \E o \in DOMAIN orders :
           \E k \in DOMAIN orders[o].authorEarningsBreakdown :
               /\ orders[o].authorEarningsBreakdown[k].author = "a2"
               /\ ~orders[o].authorEarningsBreakdown[k].paidOut

=============================================================================
